---- MODULE Spec2Model ----
(***************************************************************************)
(* Model of the proactive-message scheduler of astrbot_proactive_reply     *)
(* (tasks/proactive_task.py, the /proactive test schedule hook of          *)
(* commands/handlers.py and the timer fields of core/runtime_data.py).     *)
(*                                                                         *)
(* Time is counted in ticks, TicksPerSecond ticks to the second, so that   *)
(* datetime.now() has a sub-second part which the stored timestamp format  *)
(* "%Y-%m-%d %H:%M:%S" drops.  Code between two awaits runs atomically     *)
(* (one asyncio task), so every action is the code from one await to the   *)
(* next.  The send collaborator send_proactive_message is modelled by its  *)
(* contract: it raises, or returns None, or returns a schedule request.    *)
(* runtime_data.session_ai_scheduled is modelled as the dict of lists that *)
(* proactive_task.py reads and writes.                                     *)
(***************************************************************************)
EXTENDS Integers, Sequences, FiniteSets, TLC

\* ---------------------------------------------------------------- bounds
TicksPerSecond == 2
MaxTimeSeconds == 181
MaxTasks == 2
MaxEnvSteps == 2
MaxFailures == 1

MaxTime == MaxTimeSeconds * TicksPerSecond

\* ------------------------------------------------------ program constants
MAX_RETRIES == 3
RETRY_INTERVAL_SECONDS == 60
SLEEP_TICK_SECONDS == 60
ERROR_SLEEP_SECONDS == 60
SLICE_SECONDS == 10
SMART_SLEEP_MAX == 300
SMART_SLEEP_MIN == 1
SMART_SLEEP_DEFAULT == 60
SECONDS_PER_MINUTE == 60
TEST_DELAY_MINUTES == 1

Sessions == {"s1", "s2"}
InitialSessions == <<"s1", "s2">>
StartPhases == {0, 1}
SendTicks == {0}
AiDelays == {1}
\* the sessions in which /proactive test schedule is issued
TestSessions == {"s1"}
\* consecutive-failure counts loaded from the persisted runtime data
InitialFailures == [s \in Sessions |-> IF s = "s1" THEN 1 ELSE 0]

NoTime == -1
\* a stored time string that strptime rejects
BadTime == -2
NoRemaining == -1
NoSignature == <<>>
NoTask == [task_id |-> 0, fire_time |-> NoTime, delay_minutes |-> 0,
           follow_up_prompt |-> "none"]
NoTiming == [timing_mode |-> "none", interval_minutes |-> 0,
             random_min_minutes |-> 0, random_max_minutes |-> 0,
             random_delay_enabled |-> FALSE,
             min_random_minutes |-> 0, max_random_minutes |-> 0]
NoWake == [send_on_wake_enabled |-> FALSE, wake_send_mode |-> "none"]
NoPrompt == [sleep_ctx |-> FALSE, prompt |-> "none"]
NoPass == [now |-> NoTime, sessions |-> <<>>, idx |-> 0, sleep_mode |-> FALSE,
           due_ai_task |-> NoTask]
NoRetry == [attempt |-> 0, override_prompt |-> NoPrompt]
NoHist == [due |-> {}, sent |-> {}, calls |-> 0, notices |-> 0,
           fails_before |-> 0]
NoAppend == [task |-> NoTask, nf_before |-> NoTime, nf_after |-> NoTime,
             at |-> NoTime, iv |-> 0, eligible |-> FALSE, ai_before |-> <<>>]
NoSend == [done |-> FALSE, success |-> FALSE, attempt |-> 0, attempts |-> 0,
           notices |-> 0,
           delivered |-> 0, result |-> NoTask, fails_before |-> 0,
           fails_after |-> 0, prompt |-> NoPrompt]
NoCall == [fn |-> "none"]
NoWrite == [by |-> "none", at |-> NoTime, iv |-> 0, tasks |-> <<>>,
            prev |-> NoTime, remaining |-> NoRemaining]

Sec(n) == n * TicksPerSecond
Min2(a, b) == IF a < b THEN a ELSE b
Max2(a, b) == IF a > b THEN a ELSE b
SetMin(S) == CHOOSE x \in S : \A y \in S : x <= y
InSeq(x, seq) == \E i \in 1..Len(seq) : seq[i] = x
SeqSet(seq) == {seq[i] : i \in 1..Len(seq)}

\* strftime("%Y-%m-%d %H:%M:%S") followed by strptime: the sub-second part
\* of the datetime is lost.
Fmt(t) == t - (t % TicksPerSecond)

\* ------------------------------------------------------------ configuration
TimingPreset(mode, interval, delay_enabled) ==
    [timing_mode |-> mode, interval_minutes |-> interval,
     random_min_minutes |-> 1, random_max_minutes |-> 1,
     random_delay_enabled |-> delay_enabled,
     min_random_minutes |-> 0, max_random_minutes |-> 1]

TimingPresets ==
    { TimingPreset("fixed_interval", 1, FALSE),
      TimingPreset("fixed_interval", 2, FALSE),
      TimingPreset("random_interval", 1, FALSE) }

\* the configuration the loop starts with
InitialTiming == TimingPreset("fixed_interval", 1, FALSE)

WakeModes == { [send_on_wake_enabled |-> FALSE, wake_send_mode |-> "immediate"],
               [send_on_wake_enabled |-> TRUE, wake_send_mode |-> "immediate"],
               [send_on_wake_enabled |-> TRUE, wake_send_mode |-> "delayed"] }

VARIABLES
    now,                          \* datetime.now(), in ticks
    timing,                       \* config["proactive_reply"] timing fields
    sessions,                     \* config["proactive_reply"]["sessions"]
    in_sleep_window,              \* value of is_sleep_time(config) at now
    session_next_fire_times,      \* runtime_data
    session_sleep_remaining,      \* runtime_data
    session_ai_scheduled,         \* runtime_data
    session_consecutive_failures, \* runtime_data
    timing_config_signature,      \* runtime_data
    durable,                      \* content of the persistent data file
    next_task_id,                 \* source of fresh uuid4 task ids
    pc,                           \* await at which the loop is suspended
    was_sleeping,                 \* proactive_message_loop local
    slice_remaining,              \* interruptible_sleep local `remaining`
    pass,                         \* process_due_sessions locals
    retry,                        \* _send_with_retry locals
    hist,                         \* history: the running pass and send cycle
    ev,                           \* history: what the last step did
    seen_timing,                  \* history: timing at the last awake iteration
    budget,                       \* history: environment steps taken
    enabled,                      \* config["proactive_reply"]["enabled"]
    terminating,                  \* value of is_terminating_flag_getter()
    cancel_requested,             \* cancel() was called on the loop task
    proactive_task,               \* ProactiveTaskManager.proactive_task
    loops,                        \* the proactive_message_loop tasks created
    cmds,                         \* the command handlers in progress
    call                          \* a function call: argument and result

vars == <<now, timing, sessions, in_sleep_window,
          session_next_fire_times, session_sleep_remaining,
          session_ai_scheduled, session_consecutive_failures,
          timing_config_signature, durable, next_task_id, pc, was_sleeping,
          slice_remaining, pass, retry, hist, ev, seen_timing, budget,
          enabled, terminating, cancel_requested, proactive_task, loops,
          cmds, call>>

\* the variables of the task lifecycle and of the function calls
lifevars == <<enabled, terminating, cancel_requested, proactive_task, loops,
              cmds, call>>

\* The runtime data threaded through the code of one step; lw collects the
\* NextFireTime writes of the step and clears the clear_all calls.
World == [nf |-> session_next_fire_times,
          rem |-> session_sleep_remaining,
          ai |-> session_ai_scheduled,
          fails |-> session_consecutive_failures,
          sig |-> timing_config_signature,
          disk |-> durable,
          next_id |-> next_task_id,
          lw |-> [s \in Sessions |-> NoWrite],
          clears |-> 0]

Commit(w) ==
    /\ session_next_fire_times' = w.nf
    /\ session_sleep_remaining' = w.rem
    /\ session_ai_scheduled' = w.ai
    /\ session_consecutive_failures' = w.fails
    /\ timing_config_signature' = w.sig
    /\ durable' = w.disk
    /\ next_task_id' = w.next_id

\* ------------------------------------------------------------- persistence
\* RuntimeDataStore.to_dict: the timer fields it exports
to_dict(w) ==
    [session_next_fire_times |-> w.nf,
     session_sleep_remaining |-> w.rem,
     timing_config_signature |-> w.sig,
     session_consecutive_failures |-> w.fails]

\* PersistenceManager.save_persistent_data: the file is replaced by the
\* export of the runtime data
save_persistent_data(w) == [w EXCEPT !.disk = to_dict(w)]

\* ------------------------------------------------------- interval and timers
get_target_sessions == sessions

get_session_target_interval(cfg) ==
    IF cfg.timing_mode # "random_interval"
    THEN IF cfg.random_delay_enabled
         THEN {cfg.interval_minutes + d :
                 d \in cfg.min_random_minutes..cfg.max_random_minutes}
         ELSE {cfg.interval_minutes}
    ELSE cfg.random_min_minutes..cfg.random_max_minutes

IntervalChoices == [Sessions -> get_session_target_interval(timing)]

calculate_next_fire_time(t, iv) == t + Sec(iv * SECONDS_PER_MINUTE)

\* None for a missing or empty string and for one that strptime rejects
get_session_next_fire_time(w, s) ==
    IF w.nf[s] = BadTime THEN NoTime ELSE w.nf[s]

\* mutation: the time is stored with its sub-second part
set_unformatted_fire_time(w, s, fire_time, info) ==
    save_persistent_data([w EXCEPT !.nf[s] = fire_time, !.lw[s] = info])

set_session_next_fire_time(w, s, fire_time, info) ==
    save_persistent_data([w EXCEPT !.nf[s] = Fmt(fire_time), !.lw[s] = info])

WriteInfo(w, s, by, t, iv) ==
    [by |-> by, at |-> t, iv |-> iv, tasks |-> w.ai[s], prev |-> w.nf[s],
     remaining |-> w.rem[s]]

\* min(valid_times) of refresh_session_timer, scanned in list order
RECURSIVE min_ai_time(_, _, _)
min_ai_time(tasks, i, best) ==
    IF i > Len(tasks) THEN best
    ELSE min_ai_time(tasks, i + 1,
                     IF best = NoTime \/ tasks[i].fire_time < best
                     THEN tasks[i].fire_time ELSE best)

\* mutation: the interval is counted from the value stored before
next_from_previous(w, s, t, iv) ==
    IF ~InSeq(s, get_target_sessions) THEN w
    ELSE set_session_next_fire_time(
             w, s, calculate_next_fire_time(
                       IF w.nf[s] = NoTime THEN t ELSE w.nf[s], iv),
             WriteInfo(w, s, "refresh", t, iv))

\* mutation: the ad-hoc tasks are ignored
refresh_regular_only(w, s, t, iv) ==
    IF ~InSeq(s, get_target_sessions) THEN w
    ELSE set_session_next_fire_time(w, s, calculate_next_fire_time(t, iv),
                                    WriteInfo(w, s, "refresh", t, iv))

refresh_session_timer(w, s, t, iv) ==
    IF ~InSeq(s, get_target_sessions) THEN w
    ELSE LET regular_next_fire == calculate_next_fire_time(t, iv)
             ai_tasks == w.ai[s]
             m == min_ai_time(ai_tasks, 1, NoTime)
             next_fire == IF ai_tasks # <<>> /\ m # NoTime /\ m < regular_next_fire
                          THEN m ELSE regular_next_fire
         IN set_session_next_fire_time(w, s, next_fire,
                                       WriteInfo(w, s, "refresh", t, iv))

\* mutation: every target session is rescheduled
RECURSIVE ensure_overwrite_all(_, _, _, _, _)
ensure_overwrite_all(w, targets, i, t, ivs) ==
    IF i > Len(targets) THEN w
    ELSE LET s == targets[i]
         IN ensure_overwrite_all(
                set_session_next_fire_time(
                    w, s, calculate_next_fire_time(t, ivs[s]),
                    WriteInfo(w, s, "ensure", t, ivs[s])),
                targets, i + 1, t, ivs)

RECURSIVE ensure_all_sessions_scheduled(_, _, _, _, _)
ensure_all_sessions_scheduled(w, targets, i, t, ivs) ==
    IF i > Len(targets) THEN w
    ELSE LET s == targets[i]
             w1 == IF get_session_next_fire_time(w, s) = NoTime
                   THEN set_session_next_fire_time(
                            w, s, calculate_next_fire_time(t, ivs[s]),
                            WriteInfo(w, s, "ensure", t, ivs[s]))
                   ELSE w
         IN ensure_all_sessions_scheduled(w1, targets, i + 1, t, ivs)

\* mutation: the failure counts are wiped with the timers
clear_timers_and_failures(w) ==
    save_persistent_data(
        [w EXCEPT !.nf = [s \in Sessions |-> NoTime],
                  !.rem = [s \in Sessions |-> NoRemaining],
                  !.fails = [s \in Sessions |-> 0],
                  !.lw = [s \in Sessions |-> NoWrite],
                  !.clears = @ + 1])

clear_all_session_timers(w) ==
    save_persistent_data(
        [w EXCEPT !.nf = [s \in Sessions |-> NoTime],
                  !.rem = [s \in Sessions |-> NoRemaining],
                  !.lw = [s \in Sessions |-> NoWrite],
                  !.clears = @ + 1])

get_timing_config_signature(cfg) ==
    <<cfg.timing_mode, cfg.interval_minutes, cfg.random_min_minutes,
      cfg.random_max_minutes, cfg.random_delay_enabled,
      cfg.min_random_minutes, cfg.max_random_minutes>>

\* mutation: an empty stored signature counts as a change
check_clear_on_first(w, cfg) ==
    LET current_signature == get_timing_config_signature(cfg)
    IN IF current_signature # w.sig
       THEN [clear_all_session_timers(w) EXCEPT !.sig = current_signature]
       ELSE w

\* mutation: the new signature is not stored after the clear
check_without_store(w, cfg) ==
    LET current_signature == get_timing_config_signature(cfg)
        last_signature == w.sig
    IN IF last_signature = NoSignature
       THEN save_persistent_data([w EXCEPT !.sig = current_signature])
       ELSE IF current_signature # last_signature
            THEN clear_all_session_timers(w)
            ELSE w

check_and_handle_config_change(w, cfg) ==
    LET current_signature == get_timing_config_signature(cfg)
        last_signature == w.sig
    IN IF last_signature = NoSignature
       THEN save_persistent_data([w EXCEPT !.sig = current_signature])
       ELSE IF current_signature # last_signature
            THEN [clear_all_session_timers(w) EXCEPT !.sig = current_signature]
            ELSE w

\* mutation: the time to the next event is not limited
smart_sleep_unlimited(w, targets, t) ==
    LET next_fires == {get_session_next_fire_time(w, s) :
                         s \in {x \in SeqSet(targets) :
                                  get_session_next_fire_time(w, x) # NoTime}}
    IN IF targets = <<>> \/ next_fires = {} THEN SMART_SLEEP_DEFAULT
       ELSE (SetMin(next_fires) - t) \div TicksPerSecond

calculate_smart_sleep(w, targets, t) ==
    LET next_fires == {get_session_next_fire_time(w, s) :
                         s \in {x \in SeqSet(targets) :
                                  get_session_next_fire_time(w, x) # NoTime}}
    IN IF targets = <<>> \/ next_fires = {} THEN SMART_SLEEP_DEFAULT
       ELSE LET earliest == SetMin(next_fires)
            IN IF earliest - t <= 0 THEN 1
               ELSE Max2(SMART_SLEEP_MIN,
                         Min2(SMART_SLEEP_MAX, (earliest - t) \div TicksPerSecond))

\* ------------------------------------------------------------ sleep window
is_sleep_time == in_sleep_window

RECURSIVE handle_enter_sleep(_, _, _, _)
handle_enter_sleep(w, targets, i, t) ==
    IF i > Len(targets) THEN save_persistent_data(w)
    ELSE LET s == targets[i]
             fire_time == get_session_next_fire_time(w, s)
             w1 == IF fire_time # NoTime /\ fire_time > t
                   THEN [w EXCEPT !.rem[s] = fire_time - t]
                   ELSE w
         IN handle_enter_sleep(w1, targets, i + 1, t)

\* mutation: every mode recomputes the timers from the regular interval
exit_sleep_recompute(w, targets, i, t, ivs, ta) ==
    ensure_overwrite_all(w, targets, i, t, ivs)

RECURSIVE exit_sleep_sessions(_, _, _, _, _, _)
exit_sleep_sessions(w, targets, i, t, ivs, ta) ==
    IF i > Len(targets) THEN w
    ELSE LET s == targets[i]
             remaining == w.rem[s]
             w1 == IF ~ta.send_on_wake_enabled
                   THEN refresh_session_timer(w, s, t, ivs[s])
                   ELSE IF ta.wake_send_mode = "immediate"
                   THEN w
                   ELSE IF remaining # NoRemaining /\ remaining > 0
                   THEN set_session_next_fire_time(
                            w, s, t + remaining,
                            WriteInfo(w, s, "wake_restore", t, 0))
                   ELSE set_session_next_fire_time(
                            w, s, calculate_next_fire_time(t, ivs[s]),
                            WriteInfo(w, s, "wake_recompute", t, ivs[s]))
         IN exit_sleep_sessions(w1, targets, i + 1, t, ivs, ta)

\* mutation: the timers are left as they were before the sleep
exit_sleep_keep_timers(w, targets, t, ivs, ta) ==
    save_persistent_data(
        [w EXCEPT !.rem = [s \in Sessions |-> NoRemaining]])

handle_exit_sleep(w, targets, t, ivs, ta) ==
    save_persistent_data(
        [exit_sleep_sessions(w, targets, 1, t, ivs, ta)
            EXCEPT !.rem = [s \in Sessions |-> NoRemaining]])

\* ------------------------------------------------------------- ad-hoc tasks
\* sorted_tasks.sort(key = fire time) is stable: among equal fire times the
\* list order decides; the first sorted task is the one examined first.
RECURSIVE earliest_task(_, _, _)
earliest_task(tasks, i, best) ==
    IF i > Len(tasks) THEN best
    ELSE earliest_task(tasks, i + 1,
                       IF best = NoTask \/ tasks[i].fire_time < best.fire_time
                       THEN tasks[i] ELSE best)

due_ai_task(tasks, pass_now) ==
    LET first == earliest_task(tasks, 1, NoTask)
    IN IF first # NoTask /\ first.fire_time <= pass_now THEN first ELSE NoTask

\* mutation: the fired task is left in the list
remove_nothing(tasks, task_id_to_remove) == tasks

\* mutation: every task with the fired task's fire time is dropped
remove_by_fire_time(tasks, task_id_to_remove) ==
    SelectSeq(tasks, LAMBDA t :
        \A k \in 1..Len(tasks) :
            tasks[k].task_id = task_id_to_remove
                => tasks[k].fire_time # t.fire_time)

remove_task(tasks, task_id_to_remove) ==
    SelectSeq(tasks, LAMBDA t : t.task_id # task_id_to_remove)

\* mutation: the timer is not refreshed after the append
apply_append_only(w, s, schedule_info, t, iv) ==
    save_persistent_data([w EXCEPT !.ai[s] = Append(@, schedule_info)])

\* apply_ai_schedule: append, then refresh the timer
apply_ai_schedule(w, s, schedule_info, t, iv) ==
    refresh_session_timer(
        save_persistent_data([w EXCEPT !.ai[s] = Append(@, schedule_info)]),
        s, t, iv)

\* the request analyze_for_schedule builds from a reply asking for
\* delay_minutes, with a fresh uuid4
NewTask(w, t, delay_minutes, prompt) ==
    [task_id |-> w.next_id,
     fire_time |-> Fmt(t + Sec(delay_minutes * SECONDS_PER_MINUTE)),
     delay_minutes |-> delay_minutes,
     follow_up_prompt |-> prompt]

\* ------------------------------------------------------------------ history
EvBase ==
    [kind |-> "init", s |-> "-", at |-> now,
     lw |-> [x \in Sessions |-> NoWrite], clears |-> 0,
     pre_nf |-> session_next_fire_times, pre_ai |-> session_ai_scheduled,
     append |-> NoAppend, send |-> NoSend, task |-> NoTask,
     iter |-> "none", entered |-> FALSE, woke |-> FALSE, wake |-> NoWake,
     prev_seen |-> NoTiming, sleep_seconds |-> 0,
     skipped |-> {}, sleep_pass_end |-> FALSE, awake_pass_end |-> FALSE,
     pass_due |-> {}, pass_sent |-> {}, began |-> NoTime,
     pass_now |-> NoTime, end_nf |-> NoTime, end_ai |-> <<>>,
     end_lw |-> NoWrite, exit_nf |-> session_next_fire_times]

Ev(kind, s, t) == [EvBase EXCEPT !.kind = kind, !.s = s, !.at = t]

Locals == [was_sleeping |-> was_sleeping, seen_timing |-> seen_timing]

\* ------------------------------------------------------- process_due_sessions
Elapsed(w, s, pass_now) ==
    get_session_next_fire_time(w, s) # NoTime
    /\ get_session_next_fire_time(w, s) <= pass_now

\* mutation: the sleep-mode skip is missing
needs_send_any_mode(w, s, pass_now, sleep_mode) == Elapsed(w, s, pass_now)

\* the body of the for loop up to the send: is a send started for s?
needs_send(w, s, pass_now, sleep_mode) ==
    /\ Elapsed(w, s, pass_now)
    /\ ~(sleep_mode /\ due_ai_task(w.ai[s], pass_now) = NoTask)

RECURSIVE next_send_idx(_, _, _, _, _)
next_send_idx(w, targets, i, pass_now, sleep_mode) ==
    IF i > Len(targets) THEN i
    ELSE IF needs_send(w, targets[i], pass_now, sleep_mode) THEN i
    ELSE next_send_idx(w, targets, i + 1, pass_now, sleep_mode)

override_prompt_of(task, sleep_mode) ==
    IF task = NoTask THEN NoPrompt
    ELSE [sleep_ctx |-> sleep_mode, prompt |-> task.follow_up_prompt]

NewPass(t, sleep_mode) ==
    [now |-> t, sessions |-> get_target_sessions, idx |-> 0,
     sleep_mode |-> sleep_mode, due_ai_task |-> NoTask]

\* history of a pass: the tasks of eligible sessions that are due at its start
NewHist(w, p) ==
    [NoHist EXCEPT !.due = IF ~p.sleep_mode THEN {}
                           ELSE {id \in 1..MaxTasks :
                                   \E s \in SeqSet(p.sessions) :
                                     \E k \in 1..Len(w.ai[s]) :
                                        /\ w.ai[s][k].task_id = id
                                        /\ w.ai[s][k].fire_time <= p.now}]

\* the for loop from index `from` up to the next session a send is started
\* for; skipped: the elapsed sessions passed over on the way
Scan(w, p, from) ==
    LET n == Len(p.sessions)
        i == next_send_idx(w, p.sessions, from, p.now, p.sleep_mode)
    IN [i |-> i,
        skipped |-> {p.sessions[k] :
                       k \in {x \in from..Min2(i - 1, n) :
                                Elapsed(w, p.sessions[x], p.now)}}]

\* ------------------------------------------------------ where a step ends
\* at `await send_proactive_message` of the first attempt for p.sessions[i]
GoSend(w, L, p, i, h, e) ==
    LET s == p.sessions[i]
        task == due_ai_task(w.ai[s], p.now)
    IN /\ Commit(w)
       /\ pc' = "send"
       /\ pass' = [p EXCEPT !.idx = i, !.due_ai_task = task]
       /\ retry' = [attempt |-> 1,
                    override_prompt |-> override_prompt_of(task, p.sleep_mode)]
       /\ hist' = [h EXCEPT !.sent = @ \cup (IF task = NoTask THEN {}
                                             ELSE {task.task_id}),
                            !.calls = 1,
                            !.notices = 0,
                            !.fails_before = w.fails[s]]
       /\ slice_remaining' = 0
       /\ was_sleeping' = L.was_sleeping
       /\ seen_timing' = L.seen_timing
       /\ ev' = [e EXCEPT !.lw = w.lw, !.clears = w.clears]

\* at `await asyncio.sleep(60)` of an iteration inside the sleep window
GoTick(w, L, e) ==
    /\ Commit(w)
    /\ pc' = "tick"
    /\ pass' = NoPass
    /\ retry' = NoRetry
    /\ hist' = NoHist
    /\ slice_remaining' = 0
    /\ was_sleeping' = L.was_sleeping
    /\ seen_timing' = L.seen_timing
    /\ ev' = [e EXCEPT !.lw = w.lw, !.clears = w.clears]

\* at `await asyncio.sleep(chunk)` of interruptible_sleep
GoSlice(w, L, remaining, e) ==
    /\ Commit(w)
    /\ pc' = "slice"
    /\ pass' = NoPass
    /\ retry' = NoRetry
    /\ hist' = NoHist
    /\ slice_remaining' = remaining
    /\ was_sleeping' = L.was_sleeping
    /\ seen_timing' = L.seen_timing
    /\ ev' = [e EXCEPT !.lw = w.lw, !.clears = w.clears]

\* ------------------------------------------------- proactive_message_loop
\* One iteration of the while loop at time t, up to its first await.
\* Inside the sleep window: handle_enter_sleep on entry, then
\* process_due_sessions(sleep_mode=True).  Outside: handle_exit_sleep on
\* exit, the config check, ensure_all_sessions_scheduled,
\* calculate_smart_sleep and the first slice of interruptible_sleep.
Iterate(w, L, t, e) ==
    IF is_sleep_time
    THEN LET w1 == IF ~L.was_sleeping
                   THEN handle_enter_sleep(w, get_target_sessions, 1, t)
                   ELSE w
             L1 == [L EXCEPT !.was_sleeping = TRUE]
             p == NewPass(t, TRUE)
             h == NewHist(w1, p)
             r == Scan(w1, p, 1)
             e1 == [e EXCEPT !.iter = "asleep",
                             !.entered = ~L.was_sleeping,
                             !.skipped = r.skipped]
         IN IF r.i <= Len(p.sessions)
            THEN GoSend(w1, L1, p, r.i, h, e1)
            ELSE GoTick(w1, L1, [e1 EXCEPT !.sleep_pass_end = TRUE,
                                           !.pass_due = h.due,
                                           !.pass_sent = h.sent])
    ELSE \E ivs1 \in IntervalChoices, ivs2 \in IntervalChoices,
            time_awareness \in (IF L.was_sleeping THEN WakeModes ELSE {NoWake}) :
           \E w1 \in {IF L.was_sleeping
                        THEN handle_exit_sleep(w, get_target_sessions, t,
                                               ivs1, time_awareness)
                        ELSE w} :
           \E w2 \in {check_and_handle_config_change(w1, timing)} :
           \E w3 \in {ensure_all_sessions_scheduled(
                           w2, get_target_sessions, 1, t, ivs2)} :
           LET sleep_seconds == calculate_smart_sleep(w3, get_target_sessions, t)
           IN GoSlice(w3,
                      [was_sleeping |-> FALSE, seen_timing |-> timing],
                      sleep_seconds,
                      [e EXCEPT !.iter = "awake",
                                !.woke = L.was_sleeping,
                                !.wake = time_awareness,
                                !.prev_seen = L.seen_timing,
                                !.sleep_seconds = sleep_seconds,
                                !.exit_nf = w1.nf])

\* process_due_sessions after the session at p.idx is done (from = idx + 1)
\* or from its start (from = 1): the next send, or the end of the pass and
\* what the loop does next.
ContinuePass(w, L, p, from, h, e, t) ==
    LET r == Scan(w, p, from)
        e1 == IF p.sleep_mode THEN [e EXCEPT !.skipped = r.skipped] ELSE e
    IN IF r.i <= Len(p.sessions)
       THEN GoSend(w, L, p, r.i, h, e1)
       ELSE IF p.sleep_mode
       THEN GoTick(w, L, [e1 EXCEPT !.sleep_pass_end = TRUE,
                                    !.pass_due = h.due,
                                    !.pass_sent = h.sent])
       ELSE Iterate(w, L, t, [e1 EXCEPT !.awake_pass_end = TRUE])

\* ------------------------------------------------------------------- Init
\* the feature is enabled, nothing asks the loop task to stop, and no command
\* is in progress
LifeIdle ==
    /\ enabled = TRUE
    /\ terminating = FALSE
    /\ cancel_requested = FALSE
    /\ proactive_task = 0
    /\ loops = <<>>
    /\ cmds = <<>>
    /\ call = NoCall

Init ==
    /\ now \in StartPhases
    /\ timing = InitialTiming
    /\ sessions = InitialSessions
    /\ in_sleep_window = FALSE
    /\ session_next_fire_times = [s \in Sessions |-> NoTime]
    /\ session_sleep_remaining = [s \in Sessions |-> NoRemaining]
    /\ session_ai_scheduled = [s \in Sessions |-> <<>>]
    /\ session_consecutive_failures = InitialFailures
    /\ timing_config_signature = NoSignature
    /\ durable = [session_next_fire_times |-> session_next_fire_times,
                  session_sleep_remaining |-> session_sleep_remaining,
                  timing_config_signature |-> timing_config_signature,
                  session_consecutive_failures |-> session_consecutive_failures]
    /\ next_task_id = 1
    /\ pc = "start"
    /\ was_sleeping = FALSE
    /\ slice_remaining = 0
    /\ pass = NoPass
    /\ retry = NoRetry
    /\ hist = NoHist
    /\ seen_timing = NoTiming
    /\ budget = 0
    /\ LifeIdle
    /\ ev = [kind |-> "init", s |-> "-", at |-> NoTime,
             lw |-> [x \in Sessions |-> NoWrite], clears |-> 0,
             pre_nf |-> [x \in Sessions |-> NoTime],
             pre_ai |-> [x \in Sessions |-> <<>>],
             append |-> NoAppend, send |-> NoSend, task |-> NoTask,
             iter |-> "none", entered |-> FALSE, woke |-> FALSE,
             wake |-> NoWake, prev_seen |-> NoTiming, sleep_seconds |-> 0,
             skipped |-> {}, sleep_pass_end |-> FALSE,
             awake_pass_end |-> FALSE, pass_due |-> {}, pass_sent |-> {},
             began |-> NoTime, pass_now |-> NoTime, end_nf |-> NoTime,
             end_ai |-> <<>>, end_lw |-> NoWrite,
             exit_nf |-> [x \in Sessions |-> NoTime]]

EnvUnchanged ==
    UNCHANGED <<timing, sessions, in_sleep_window, budget, lifevars>>

\* the loop task starts running: first iteration
LoopStart ==
    /\ pc = "start"
    /\ Iterate(World, Locals, now, Ev("start", "-", now))
    /\ UNCHANGED now
    /\ EnvUnchanged

\* interruptible_sleep: one slice has elapsed.  A remaining slice is taken
\* unless the sleep window has begun (return False, `continue`); after the
\* last slice process_due_sessions() runs.
SliceWake ==
    /\ pc = "slice"
    /\ LET chunk == Min2(SLICE_SECONDS, slice_remaining)
           t == now + Sec(chunk)
           remaining == slice_remaining - chunk
           p == NewPass(t, FALSE)
       IN /\ t <= MaxTime
          /\ now' = t
          /\ IF remaining > 0
             THEN IF is_sleep_time
                  THEN Iterate(World, Locals, t, Ev("slice", "-", t))
                  ELSE GoSlice(World, Locals, remaining, Ev("slice", "-", t))
             ELSE ContinuePass(World, Locals, p, 1, NewHist(World, p),
                               Ev("slice", "-", t), t)
    /\ EnvUnchanged

\* asyncio.sleep(60) of an iteration inside the sleep window has elapsed
TickWake ==
    /\ pc = "tick"
    /\ LET t == now + Sec(SLEEP_TICK_SECONDS)
       IN /\ t <= MaxTime
          /\ now' = t
          /\ Iterate(World, Locals, t, Ev("tick", "-", t))
    /\ EnvUnchanged

\* ------------------------------------------------------- _send_with_retry
\* mutation: a success leaves the failure count alone
keep_failures(w, s) == w

\* session_consecutive_failures.pop(session, None)
clear_failures(w, s) == [w EXCEPT !.fails[s] = 0]

\* mutation: an exhausted cycle is counted against every session
count_failure_everywhere(w, s) ==
    [w EXCEPT !.fails = [x \in DOMAIN @ |-> @[x] + 1]]

\* failures = session_consecutive_failures.get(session, 0) + 1
count_failure(w, s) == [w EXCEPT !.fails[s] = @ + 1]

\* send_proactive_message returned: result = 0 is None, otherwise the
\* delay_minutes of the schedule request it returned.  The failure count is
\* cleared, the fired task removed, the request applied, the timer
\* refreshed, and the pass goes on.
SendReturned(ticks, results) ==
    /\ pc = "send"
    /\ \E j \in ticks, result \in results,
          iv1 \in get_session_target_interval(timing),
          iv2 \in get_session_target_interval(timing) :
         LET t == now + j
             s == pass.sessions[pass.idx]
             due == pass.due_ai_task
         IN
         \E w1 \in {clear_failures(World, s)} :
         \E w2 \in {IF due # NoTask
                     THEN save_persistent_data(
                              [w1 EXCEPT !.ai[s] = remove_task(@, due.task_id)])
                     ELSE w1} :
         \E schedule_info \in {NewTask(w2, t, result, "ai")} :
         \E w3 \in {IF result # 0
                     THEN apply_ai_schedule([w2 EXCEPT !.next_id = @ + 1], s,
                                            schedule_info, t, iv1)
                     ELSE w2} :
         \E w4 \in {refresh_session_timer(w3, s, t, iv2)} :
         LET e == [Ev("send_ok", s, t) EXCEPT
                     !.task = due,
                     !.began = now,
                     !.pass_now = pass.now,
                     !.end_nf = w4.nf[s],
                     !.end_ai = w4.ai[s],
                     !.end_lw = w4.lw[s],
                     !.append = IF result # 0
                                THEN [task |-> schedule_info,
                                      nf_before |-> w2.nf[s],
                                      nf_after |-> w3.nf[s],
                                      at |-> t, iv |-> iv1,
                                      eligible |-> InSeq(s, get_target_sessions),
                                      ai_before |-> w2.ai[s]]
                                ELSE NoAppend,
                     !.send = [done |-> TRUE, success |-> TRUE,
                               attempt |-> retry.attempt,
                               attempts |-> hist.calls,
                               notices |-> hist.notices, delivered |-> 0,
                               result |-> IF result # 0 THEN schedule_info
                                          ELSE NoTask,
                               fails_before |-> hist.fails_before,
                               fails_after |-> w4.fails[s],
                               prompt |-> retry.override_prompt]]
         IN /\ t <= MaxTime
            /\ result # 0 => next_task_id <= MaxTasks
            /\ now' = t
            /\ ContinuePass(w4, Locals, pass, pass.idx + 1, hist, e, t)
    /\ EnvUnchanged

SendOk == SendReturned(SendTicks, {0} \cup AiDelays)

\* mutation: the loop gives up one attempt early
exhausted_early(attempt) == ~(attempt < MAX_RETRIES - 1)

\* `if attempt < self._MAX_RETRIES` is false: the for loop is over
exhausted(attempt) == ~(attempt < MAX_RETRIES)

\* send_proactive_message raised: wait and retry, or give up, count the
\* failure and start the failure notice.
SendRaised(ticks) ==
    /\ pc = "send"
    /\ \E j \in ticks :
         LET t == now + j
             s == pass.sessions[pass.idx]
             done == exhausted(retry.attempt)
             w1 == IF done THEN count_failure(World, s) ELSE World
         IN /\ t <= MaxTime
            /\ now' = t
            /\ Commit(w1)
            /\ pc' = IF done THEN "notify" ELSE "backoff"
            /\ hist' = IF done THEN [hist EXCEPT !.notices = @ + 1] ELSE hist
            /\ ev' = Ev("send_fail", s, t)
    /\ UNCHANGED <<was_sleeping, slice_remaining, pass, retry, seen_timing>>
    /\ EnvUnchanged

SendFail == SendRaised(SendTicks)

\* asyncio.sleep(_RETRY_INTERVAL_SECONDS) has elapsed: next attempt
BackoffWake ==
    /\ pc = "backoff"
    /\ now + Sec(RETRY_INTERVAL_SECONDS) <= MaxTime
    /\ now' = now + Sec(RETRY_INTERVAL_SECONDS)
    /\ ev' = Ev("backoff", pass.sessions[pass.idx], now')
    /\ pc' = "send"
    /\ retry' = [retry EXCEPT !.attempt = @ + 1]
    /\ hist' = [hist EXCEPT !.calls = @ + 1]
    /\ Commit(World)
    /\ UNCHANGED <<was_sleeping, slice_remaining, pass, seen_timing>>
    /\ EnvUnchanged

\* mutation: the failed session is refreshed by the merge rule
refresh_after_failure(w, s, t, iv) == refresh_session_timer(w, s, t, iv)

\* the else branch of process_due_sessions: the timer is set to now plus the
\* regular interval
reset_after_failure(w, s, t, iv) ==
    set_session_next_fire_time(w, s, calculate_next_fire_time(t, iv),
                               WriteInfo(w, s, "send_failed", t, iv))

\* _notify_user_send_failure returned (context.send_message delivered the
\* notice, or raised and the exception was swallowed); _send_with_retry
\* returns (False, None), process_due_sessions resets the timer to the
\* regular interval, and the pass goes on.
Notified(ticks) ==
    /\ pc = "notify"
    /\ \E j \in ticks, delivered \in {0, 1},
          iv \in get_session_target_interval(timing) :
         LET t == now + j
             s == pass.sessions[pass.idx]
         IN
         \E w1 \in {reset_after_failure(World, s, t, iv)} :
         LET e == [Ev("notify", s, t) EXCEPT
                     !.task = pass.due_ai_task,
                     !.began = now,
                     !.send = [done |-> TRUE, success |-> FALSE,
                               attempt |-> retry.attempt,
                               attempts |-> hist.calls,
                               notices |-> hist.notices,
                               delivered |-> delivered, result |-> NoTask,
                               fails_before |-> hist.fails_before,
                               fails_after |-> w1.fails[s],
                               prompt |-> retry.override_prompt]]
         IN /\ t <= MaxTime
            /\ now' = t
            /\ ContinuePass(w1, Locals, pass, pass.idx + 1, hist, e, t)
    /\ EnvUnchanged

NotifyDone == Notified(SendTicks)

\* ------------------------------------------------------------- environment
\* Handlers and configuration edits run while the loop is suspended.
LoopLocalsUnchanged ==
    UNCHANGED <<now, pc, was_sleeping, slice_remaining, pass, retry, hist,
                seen_timing, lifevars>>

\* a live edit of the cadence-relevant configuration fields
ConfigChange ==
    /\ budget < MaxEnvSteps
    /\ \E c \in TimingPresets \ {timing} : timing' = c
    /\ budget' = budget + 1
    /\ Commit(World)
    /\ UNCHANGED <<sessions, in_sleep_window, ev>>
    /\ LoopLocalsUnchanged

\* the wall clock enters or leaves the configured sleep window
WindowToggle ==
    /\ budget < MaxEnvSteps
    /\ in_sleep_window' = ~in_sleep_window
    /\ budget' = budget + 1
    /\ Commit(World)
    /\ UNCHANGED <<timing, sessions, ev>>
    /\ LoopLocalsUnchanged

\* /proactive test schedule issued in session s
TestSchedule ==
    /\ budget < MaxEnvSteps
    /\ next_task_id <= MaxTasks
    /\ \E s \in TestSessions, iv \in get_session_target_interval(timing) :
         LET task == NewTask(World, now, TEST_DELAY_MINUTES, "test")
             w0 == [World EXCEPT !.next_id = @ + 1]
             w1 == apply_ai_schedule(w0, s, task, now, iv)
         IN /\ Commit(w1)
            /\ ev' = [Ev("test_schedule", s, now) EXCEPT
                        !.lw = w1.lw,
                        !.append = [task |-> task,
                                    nf_before |-> World.nf[s],
                                    nf_after |-> w1.nf[s],
                                    at |-> now, iv |-> iv,
                                    eligible |-> InSeq(s, get_target_sessions),
                                    ai_before |-> World.ai[s]]]
    /\ budget' = budget + 1
    /\ UNCHANGED <<timing, sessions, in_sleep_window>>
    /\ LoopLocalsUnchanged

Next ==
    \/ LoopStart
    \/ SliceWake
    \/ TickWake
    \/ SendOk
    \/ SendFail
    \/ BackoffWake
    \/ NotifyDone
    \/ ConfigChange
    \/ WindowToggle
    \/ TestSchedule

Spec == Init /\ [][Next]_vars

\* ========================================================= process restart
\* The runtime data is saved, the process ends, and a new process builds a
\* RuntimeDataStore, loads the file and starts the scheduler.  The loop
\* variables keep their initial values in this specification.
BlobTimes == {NoTime, Sec(SECONDS_PER_MINUTE)}
BlobRemaining == {NoRemaining, Sec(SLICE_SECONDS)}
BlobTask == [task_id |-> 1, fire_time |-> Sec(SECONDS_PER_MINUTE),
             delay_minutes |-> 1, follow_up_prompt |-> "ai"]
BlobTaskLists == {<<>>, <<BlobTask>>}
BlobFailures == {0, 1}
BlobSignatures == {NoSignature, get_timing_config_signature(InitialTiming)}

\* the five fields of the persisted state held in memory
StateBlob ==
    [session_next_fire_times |-> session_next_fire_times,
     session_sleep_remaining |-> session_sleep_remaining,
     session_ai_scheduled |-> session_ai_scheduled,
     session_consecutive_failures |-> session_consecutive_failures,
     timing_config_signature |-> timing_config_signature]

\* RuntimeDataStore.__init__ in the new process
FreshStore ==
    [World EXCEPT !.nf = [s \in Sessions |-> NoTime],
                  !.rem = [s \in Sessions |-> NoRemaining],
                  !.ai = [s \in Sessions |-> <<>>],
                  !.fails = [s \in Sessions |-> 0],
                  !.sig = NoSignature]

\* RuntimeDataStore.load_from_dict: every key it knows and finds in the file
\* replaces the field
load_from_dict(w, data) ==
    [w EXCEPT
       !.nf = IF "session_next_fire_times" \in DOMAIN data
              THEN data.session_next_fire_times ELSE @,
       !.rem = IF "session_sleep_remaining" \in DOMAIN data
               THEN data.session_sleep_remaining ELSE @,
       !.sig = IF "timing_config_signature" \in DOMAIN data
               THEN data.timing_config_signature ELSE @,
       !.fails = IF "session_consecutive_failures" \in DOMAIN data
                 THEN data.session_consecutive_failures ELSE @]

\* _restore_ai_schedules: the timer of every session that has tasks is
\* refreshed
RECURSIVE restore_ai_schedules(_, _, _, _, _)
restore_ai_schedules(w, all_sessions, i, t, ivs) ==
    IF i > Len(all_sessions) THEN w
    ELSE LET s == all_sessions[i]
             w1 == IF w.ai[s] # <<>>
                   THEN refresh_session_timer(w, s, t, ivs[s])
                   ELSE w
         IN restore_ai_schedules(w1, all_sessions, i + 1, t, ivs)

LoopIdle ==
    /\ now = 0
    /\ timing = InitialTiming
    /\ sessions = InitialSessions
    /\ in_sleep_window = FALSE
    /\ next_task_id = 1
    /\ was_sleeping = FALSE
    /\ slice_remaining = 0
    /\ pass = NoPass
    /\ retry = NoRetry
    /\ hist = NoHist
    /\ seen_timing = NoTiming
    /\ budget = 0
    /\ LifeIdle

LoopIdleUnchanged ==
    UNCHANGED <<now, timing, sessions, in_sleep_window, next_task_id,
                was_sleeping, slice_remaining, pass, retry, hist, seen_timing,
                budget, lifevars>>

InitRestart ==
    /\ LoopIdle
    /\ session_next_fire_times \in [Sessions -> BlobTimes]
    /\ session_sleep_remaining \in [Sessions -> BlobRemaining]
    /\ session_ai_scheduled \in [Sessions -> BlobTaskLists]
    /\ session_consecutive_failures \in [Sessions -> BlobFailures]
    /\ timing_config_signature \in BlobSignatures
    /\ durable = [session_next_fire_times |-> [s \in Sessions |-> NoTime],
                  session_sleep_remaining |-> [s \in Sessions |-> NoRemaining],
                  timing_config_signature |-> NoSignature,
                  session_consecutive_failures |-> [s \in Sessions |-> 0]]
    /\ pc = "dirty"
    /\ ev = [kind |-> "init", memory |-> StateBlob]

\* save_persistent_data() of the running process
Save ==
    /\ pc = "dirty"
    /\ Commit(save_persistent_data(World))
    /\ pc' = "saved"
    /\ ev' = [kind |-> "save", memory |-> StateBlob]
    /\ LoopIdleUnchanged

\* the process ends; the new one builds the store and loads the file
ProcessRestart ==
    /\ pc = "saved"
    /\ Commit(load_from_dict(FreshStore, durable))
    /\ pc' = "loaded"
    /\ ev' = [ev EXCEPT !.kind = "load"]
    /\ LoopIdleUnchanged

\* start_proactive_task of the new process, up to create_task
RestoreSchedules ==
    /\ pc = "loaded"
    /\ \E ivs \in IntervalChoices :
         Commit(restore_ai_schedules(World, InitialSessions, 1, now, ivs))
    /\ pc' = "restored"
    /\ ev' = [ev EXCEPT !.kind = "restore"]
    /\ LoopIdleUnchanged

NextRestart ==
    \/ Save
    \/ ProcessRestart
    \/ RestoreSchedules

SpecRestart == InitRestart /\ [][NextRestart]_vars

\* ================================================= the loop and its ending
\* The control flow of proactive_message_loop, process_due_sessions,
\* interruptible_sleep and _send_with_retry with the clock left out: which
\* sessions are due in a pass and how many slices a sleep takes are inputs.
\* The timers keep their initial values in this specification; a session's
\* task list may hold an entry that has no fire_time.
MaxChunks == 2

MalformedTask == [task_id |-> 1, delay_minutes |-> 1,
                  follow_up_prompt |-> "ai"]
LoopTaskLists == {<<>>, <<MalformedTask>>}
NoEnded == [due |-> {}, evaluated |-> {}, stop |-> FALSE, raised |-> FALSE,
            any |-> FALSE]

\* mutation: the termination flag is never seen
never_terminate == FALSE

\* should_terminate: the flag getter (proactive_task.cancelled() is false as
\* long as the loop task runs)
should_terminate == terminating

is_proactive_enabled == enabled

\* task["fire_time"] of refresh_session_timer raises KeyError, which its
\* `except ValueError` does not catch
refresh_raises(s) ==
    /\ InSeq(s, get_target_sessions)
    /\ \E k \in 1..Len(session_ai_scheduled[s]) :
          "fire_time" \notin DOMAIN session_ai_scheduled[s][k]

\* where the loop task is suspended
At(where, ws) ==
    [pc |-> where, was_sleeping |-> ws, slice_remaining |-> 0,
     pass |-> NoPass, retry |-> NoRetry, ended |-> NoEnded,
     sleep_call |-> "none"]

RECURSIVE first_due(_, _)
first_due(p, i) ==
    IF i > Len(p.sessions) THEN i
    ELSE IF p.sessions[i] \in p.due THEN i
    ELSE first_due(p, i + 1)

\* the for loop of process_due_sessions from index `from`: up to the first
\* send, or to its end
run_pass(p, from, ws) ==
    LET n == Len(p.sessions)
        i == first_due(p, from)
    IN IF ~should_terminate /\ i <= n
       THEN [At("send", ws) EXCEPT
               !.pass = [p EXCEPT !.idx = i],
               !.retry = [NoRetry EXCEPT !.attempt = 1]]
       ELSE [At("pass_end", ws) EXCEPT
               !.pass = p,
               !.ended = [due |-> p.due,
                          evaluated |->
                            {p.sessions[k] :
                               k \in 1..(IF should_terminate THEN from - 1
                                         ELSE n)},
                          stop |-> should_terminate, raised |-> FALSE,
                          any |-> TRUE]]

LoopPass(sleep_mode, due) ==
    [sessions |-> get_target_sessions, idx |-> 0, sleep_mode |-> sleep_mode,
     due |-> due]

\* one iteration of the while loop up to its first await; chunks: the
\* slices of the smart sleep, wake_refresh: handle_exit_sleep refreshes the
\* timers (send_on_wake_enabled is off)
loop_top(ws, chunks, wake_refresh) ==
    IF should_terminate THEN At("stopped", ws)
    ELSE IF ~is_proactive_enabled THEN At("idle", ws)
    ELSE IF is_sleep_time
    THEN LET r == [run_pass(LoopPass(TRUE, {}), 1, TRUE) EXCEPT
                     !.sleep_call = IF ~ws THEN "enter" ELSE "none"]
         IN IF r.pc = "pass_end" THEN [r EXCEPT !.pc = "tick"] ELSE r
    ELSE IF ws /\ wake_refresh
            /\ \E s \in SeqSet(get_target_sessions) : refresh_raises(s)
    THEN [At("error", ws) EXCEPT !.sleep_call = "exit_raised"]
    ELSE [At("slice", FALSE) EXCEPT
            !.slice_remaining = chunks,
            !.sleep_call = IF ws THEN "exit" ELSE "none"]

\* after a step of the pass: the next send, or what follows the pass
after_pass(r, chunks, wake_refresh) ==
    IF r.pc # "pass_end" THEN r
    ELSE IF r.pass.sleep_mode THEN [r EXCEPT !.pc = "tick"]
    ELSE [loop_top(r.was_sleeping, chunks, wake_refresh)
            EXCEPT !.ended = r.ended]

StoreUnchanged ==
    UNCHANGED <<now, timing, sessions, session_next_fire_times,
                session_sleep_remaining, session_ai_scheduled,
                session_consecutive_failures, timing_config_signature,
                durable, next_task_id, seen_timing, proactive_task, loops,
                cmds, call>>

\* the loop task goes on to position r
Goto(r, kind) ==
    /\ pc' = r.pc
    /\ was_sleeping' = r.was_sleeping
    /\ slice_remaining' = r.slice_remaining
    /\ pass' = r.pass
    /\ retry' = r.retry
    /\ ev' = [kind |-> kind, from |-> pc, terminating |-> terminating,
              ended |-> r.ended, sleep_call |-> r.sleep_call]
    /\ UNCHANGED <<in_sleep_window, enabled, terminating, cancel_requested,
                   budget, hist>>
    /\ StoreUnchanged

InitLoop ==
    /\ now = 0
    /\ timing = InitialTiming
    /\ sessions = InitialSessions
    /\ in_sleep_window \in BOOLEAN
    /\ session_next_fire_times = [s \in Sessions |-> NoTime]
    /\ session_sleep_remaining = [s \in Sessions |-> NoRemaining]
    /\ session_ai_scheduled \in [Sessions -> LoopTaskLists]
    /\ session_consecutive_failures = [s \in Sessions |-> 0]
    /\ timing_config_signature = NoSignature
    /\ durable = [session_next_fire_times |-> session_next_fire_times,
                  session_sleep_remaining |-> session_sleep_remaining,
                  timing_config_signature |-> timing_config_signature,
                  session_consecutive_failures |-> session_consecutive_failures]
    /\ next_task_id = 1
    /\ pc = "start"
    /\ was_sleeping = FALSE
    /\ slice_remaining = 0
    /\ pass = NoPass
    /\ retry = NoRetry
    /\ hist = {}
    /\ seen_timing = NoTiming
    /\ budget = 0
    /\ enabled \in BOOLEAN
    /\ terminating = FALSE
    /\ cancel_requested = FALSE
    /\ proactive_task = 0
    /\ loops = <<>>
    /\ cmds = <<>>
    /\ call = NoCall
    /\ ev = [kind |-> "init", from |-> "none", terminating |-> FALSE,
             ended |-> NoEnded, sleep_call |-> "none"]

\* the loop task runs for the first time
RunStart ==
    /\ pc = "start" /\ ~cancel_requested
    /\ \E chunks \in 1..MaxChunks, wake_refresh \in BOOLEAN :
         Goto(loop_top(was_sleeping, chunks, wake_refresh), "start")

\* asyncio.sleep(60) of the disabled feature has elapsed
RunIdle ==
    /\ pc = "idle" /\ ~cancel_requested
    /\ \E chunks \in 1..MaxChunks, wake_refresh \in BOOLEAN :
         Goto(loop_top(was_sleeping, chunks, wake_refresh), "idle")

\* asyncio.sleep(60) of an iteration inside the sleep window has elapsed
RunTick ==
    /\ pc = "tick" /\ ~cancel_requested
    /\ \E chunks \in 1..MaxChunks, wake_refresh \in BOOLEAN :
         Goto(loop_top(was_sleeping, chunks, wake_refresh), "tick")

\* asyncio.sleep(60) of `except Exception` has elapsed
RunError ==
    /\ pc = "error" /\ ~cancel_requested
    /\ \E chunks \in 1..MaxChunks, wake_refresh \in BOOLEAN :
         Goto(loop_top(was_sleeping, chunks, wake_refresh), "error")

\* a slice of interruptible_sleep has elapsed: the next slice, or the loop
\* starts over (return False), or the due pass begins (return True)
RunSlice ==
    /\ pc = "slice" /\ ~cancel_requested
    /\ \E chunks \in 1..MaxChunks, wake_refresh \in BOOLEAN,
          due \in SUBSET SeqSet(get_target_sessions) :
         LET remaining == slice_remaining - 1
         IN IF remaining > 0
            THEN IF should_terminate \/ ~is_proactive_enabled \/ is_sleep_time
                 THEN Goto(loop_top(was_sleeping, chunks, wake_refresh),
                           "slice")
                 ELSE Goto([At("slice", was_sleeping) EXCEPT
                              !.slice_remaining = remaining], "slice")
            ELSE Goto(after_pass(run_pass(LoopPass(FALSE, due), 1,
                                          was_sleeping),
                                 chunks, wake_refresh), "slice")

\* send_proactive_message returned: the timer of the session is refreshed,
\* which raises out of process_due_sessions when the session holds an entry
\* without fire_time; otherwise the pass goes on
RunSendOk ==
    /\ pc = "send" /\ ~cancel_requested
    /\ \E chunks \in 1..MaxChunks, wake_refresh \in BOOLEAN :
         LET s == pass.sessions[pass.idx]
         IN IF refresh_raises(s)
            THEN Goto([At("error", was_sleeping) EXCEPT
                         !.ended = [due |-> pass.due,
                                    evaluated |->
                                      {pass.sessions[k] : k \in 1..pass.idx},
                                    stop |-> FALSE, raised |-> TRUE,
                                    any |-> TRUE]],
                      "send_ok")
            ELSE Goto(after_pass(run_pass(pass, pass.idx + 1, was_sleeping),
                                 chunks, wake_refresh), "send_ok")

\* send_proactive_message raised: wait and retry, or count the failure and
\* start the failure notice
RunSendFail ==
    /\ pc = "send" /\ ~cancel_requested
    /\ Goto([At(IF exhausted(retry.attempt) THEN "notify" ELSE "backoff",
                was_sleeping) EXCEPT !.pass = pass, !.retry = retry],
            "send_fail")

\* asyncio.sleep(_RETRY_INTERVAL_SECONDS) has elapsed: the next attempt
RunBackoff ==
    /\ pc = "backoff" /\ ~cancel_requested
    /\ Goto([At("send", was_sleeping) EXCEPT
               !.pass = pass, !.retry = [retry EXCEPT !.attempt = @ + 1]],
            "backoff")

\* the failure notice is over: the timer is reset and the pass goes on
RunNotify ==
    /\ pc = "notify" /\ ~cancel_requested
    /\ \E chunks \in 1..MaxChunks, wake_refresh \in BOOLEAN :
         Goto(after_pass(run_pass(pass, pass.idx + 1, was_sleeping),
                         chunks, wake_refresh), "notify")

\* CancelledError is thrown into the await the loop task is suspended at:
\* `except asyncio.CancelledError: break`, or, inside the except handler,
\* the end of the task
Cancelled ==
    /\ cancel_requested
    /\ pc # "stopped"
    /\ Goto(At("stopped", was_sleeping), "cancelled")

RunNext ==
    \/ RunStart
    \/ RunIdle
    \/ RunTick
    \/ RunError
    \/ RunSlice
    \/ RunSendOk
    \/ RunSendFail
    \/ RunBackoff
    \/ RunNotify
    \/ Cancelled

LoopUnchanged ==
    /\ UNCHANGED <<pc, was_sleeping, slice_remaining, pass, retry, ev>>
    /\ StoreUnchanged

\* the plugin is being terminated: the flag is set and stays set
Terminate ==
    /\ ~terminating
    /\ terminating' = TRUE
    /\ hist' = hist \cup {pc}
    /\ UNCHANGED <<in_sleep_window, enabled, cancel_requested, budget>>
    /\ LoopUnchanged

\* cancel() is called on the loop task
CancelTask ==
    /\ ~cancel_requested
    /\ pc # "stopped"
    /\ cancel_requested' = TRUE
    /\ hist' = hist \cup {pc}
    /\ UNCHANGED <<in_sleep_window, enabled, terminating, budget>>
    /\ LoopUnchanged

\* the feature is switched on or off in the configuration
SetEnabled ==
    /\ budget < MaxEnvSteps
    /\ enabled' = ~enabled
    /\ budget' = budget + 1
    /\ UNCHANGED <<in_sleep_window, terminating, cancel_requested, hist>>
    /\ LoopUnchanged

\* the wall clock enters or leaves the configured sleep window
WindowChange ==
    /\ budget < MaxEnvSteps
    /\ in_sleep_window' = ~in_sleep_window
    /\ budget' = budget + 1
    /\ UNCHANGED <<enabled, terminating, cancel_requested, hist>>
    /\ LoopUnchanged

NextLoop ==
    \/ RunNext
    \/ Terminate
    \/ CancelTask
    \/ SetEnabled
    \/ WindowChange

SpecLoop == InitLoop /\ [][NextLoop]_vars

\* every sleep elapses, every send attempt and notice terminates, and a
\* requested cancellation is delivered
SpecLoopFair == SpecLoop /\ WF_vars(RunNext)

\* ==================================================== the task lifecycle
\* The commands that start and stop the loop task, each a coroutine that is
\* suspended where it awaits a task or a sleep, and the loop tasks they
\* create.  A loop task is reduced to what the commands depend on: whether it
\* has run, whether it is in the send of a pass, and its writes to the
\* timers.  The clock stands still; hist.stamp tells after which restart a
\* timer was written.
MaxCommands == 2
MaxEdits == 1

\* the ad-hoc tasks pending when the commands are issued
LifeTasks == { [s \in Sessions |-> <<>>],
              [s \in Sessions |-> IF s = "s1" THEN <<BlobTask>> ELSE <<>>] }

NoCommand == [kind |-> "none", pc |-> "done", target |-> 0, snapshot |-> {},
              old |-> {}, epoch |-> 0, made |-> 0]
NewLoop == [state |-> "new", cancel |-> FALSE, at |-> "none", s |-> "-",
            first |-> TRUE, by |-> "none"]

Alive(l) == l.state \in {"new", "running"}

\* the tasks asyncio.all_tasks() returns that run proactive_message_loop
all_tasks(ls) == {i \in 1..Len(ls) : Alive(ls[i])}

\* the manager, the loop tasks and the runtime data a command works on
Machine ==
    [pt |-> proactive_task, loops |-> loops, w |-> World, h |-> hist]

\* Task.cancel(): no effect on a task that is done
task_cancel(ls, t) ==
    IF Alive(ls[t]) THEN [ls EXCEPT ![t].cancel = TRUE] ELSE ls

\* self.proactive_task = asyncio.create_task(self.proactive_message_loop())
create_task(m, kind) ==
    [m EXCEPT !.loops = Append(@, [NewLoop EXCEPT !.by = kind]),
              !.pt = Len(m.loops) + 1]

Finished(c) == [c EXCEPT !.pc = "done", !.target = 0]

\* stop_proactive_task up to its await: target is the task awaited, 0 when
\* it returns without a wait
stop_proactive_task(m, c, stage) ==
    IF m.pt = 0 \/ m.loops[m.pt].state = "cancelled"
    THEN [m |-> m, c |-> [c EXCEPT !.pc = stage, !.target = 0]]
    ELSE IF ~Alive(m.loops[m.pt])
    THEN [m |-> [m EXCEPT !.pt = 0],
          c |-> [c EXCEPT !.pc = stage, !.target = 0]]
    ELSE [m |-> [m EXCEPT !.loops = task_cancel(@, m.pt)],
          c |-> [c EXCEPT !.pc = stage, !.target = m.pt]]

\* start_proactive_task after force_stop_all_tasks
finish_start(m, c, ivs) ==
    IF enabled
    THEN LET w1 == restore_ai_schedules(m.w, get_target_sessions, 1, now, ivs)
             m1 == create_task([m EXCEPT !.w = w1], c.kind)
         IN [m |-> m1,
             c |-> [c EXCEPT !.pc = "start_sleep", !.target = 0,
                             !.made = m1.pt]]
    ELSE [m |-> m, c |-> Finished(c)]

\* the for loop of force_stop_all_tasks over the snapshot, lowest task first
RECURSIVE scan_tasks(_, _, _)
scan_tasks(m, c, ivs) ==
    IF c.snapshot = {}
    THEN IF c.kind = "force_stop" THEN [m |-> m, c |-> Finished(c)]
         ELSE finish_start(m, c, ivs)
    ELSE LET t == SetMin(c.snapshot)
             c1 == [c EXCEPT !.snapshot = @ \ {t}]
         IN IF ~Alive(m.loops[t]) THEN scan_tasks(m, c1, ivs)
            ELSE [m |-> [m EXCEPT !.loops = task_cancel(@, t)],
                  c |-> [c1 EXCEPT !.pc = "scan_wait", !.target = t]]

begin_scan(m, c, ivs) ==
    scan_tasks(m, [c EXCEPT !.snapshot = all_tasks(m.loops)], ivs)

force_stop_all_tasks(m, c, ivs) ==
    LET r == stop_proactive_task(m, c, "stop_wait")
    IN IF r.c.target = 0 THEN begin_scan(r.m, r.c, ivs) ELSE r

\* restart_proactive_task after its stop: timers cleared, signature reset
reset_timers(w) ==
    [clear_all_session_timers(w) EXCEPT !.sig = NoSignature]

after_restart_stop(m, c, ivs) ==
    force_stop_all_tasks(
        [m EXCEPT !.w = reset_timers(@), !.h.epoch = @ + 1],
        [c EXCEPT !.epoch = m.h.epoch + 1], ivs)

restart_proactive_task(m, c, ivs) ==
    LET r == stop_proactive_task(m, c, "restart_wait")
    IN IF r.c.target = 0 THEN after_restart_stop(r.m, r.c, ivs) ELSE r

\* _manage_force_start: stop, then create the task
after_force_start_stop(m, c) ==
    LET m1 == create_task(m, c.kind)
    IN [m |-> m1, c |-> [Finished(c) EXCEPT !.made = m1.pt]]

manage_force_start(m, c) ==
    LET r == stop_proactive_task(m, c, "force_start_wait")
    IN IF r.c.target = 0 THEN after_force_start_stop(r.m, r.c) ELSE r

\* the command goes on after its await; a stop wait ends in
\* `finally: self.proactive_task = None`
resume(m, c, ivs) ==
    CASE c.pc = "restart_wait" ->
           after_restart_stop([m EXCEPT !.pt = 0], c, ivs)
      [] c.pc = "stop_wait" -> begin_scan([m EXCEPT !.pt = 0], c, ivs)
      [] c.pc = "force_start_wait" ->
           after_force_start_stop([m EXCEPT !.pt = 0], c)
      [] c.pc = "scan_wait" -> scan_tasks(m, c, ivs)
      [] c.pc = "start_sleep" -> [m |-> m, c |-> Finished(c)]

\* after which restart each timer was written
Stamped(m) ==
    [m.h EXCEPT !.stamp = [s \in Sessions |->
                             IF m.w.nf[s] = NoTime THEN -1
                             ELSE IF m.w.lw[s] # NoWrite THEN m.h.epoch
                             ELSE @[s]]]

LifeRest ==
    UNCHANGED <<now, sessions, in_sleep_window, pc, was_sleeping,
                slice_remaining, pass, retry, seen_timing, enabled,
                terminating, cancel_requested, call>>

CommitMachine(m) ==
    /\ Commit(m.w)
    /\ proactive_task' = m.pt
    /\ loops' = m.loops
    /\ hist' = Stamped(m)
    /\ LifeRest

InitLife ==
    /\ now = 0
    /\ timing = InitialTiming
    /\ sessions = InitialSessions
    /\ in_sleep_window = FALSE
    /\ session_next_fire_times =
         [s \in Sessions |-> calculate_next_fire_time(0, 1)]
    /\ session_sleep_remaining = [s \in Sessions |-> NoRemaining]
    /\ session_ai_scheduled \in LifeTasks
    /\ session_consecutive_failures = [s \in Sessions |-> 0]
    /\ timing_config_signature = get_timing_config_signature(InitialTiming)
    /\ durable = [session_next_fire_times |-> session_next_fire_times,
                  session_sleep_remaining |-> session_sleep_remaining,
                  timing_config_signature |-> timing_config_signature,
                  session_consecutive_failures |-> session_consecutive_failures]
    /\ next_task_id = 1
    /\ pc = "life"
    /\ was_sleeping = FALSE
    /\ slice_remaining = 0
    /\ pass = NoPass
    /\ retry = NoRetry
    /\ hist = [epoch |-> 0, stamp |-> [s \in Sessions |-> 0]]
    /\ seen_timing = NoTiming
    /\ budget = 0
    /\ enabled \in BOOLEAN
    /\ terminating = FALSE
    /\ cancel_requested = FALSE
    /\ proactive_task = 1
    /\ loops = <<[NewLoop EXCEPT !.state = "running", !.first = FALSE,
                                 !.by = "start"]>>
    /\ cmds = <<>>
    /\ call = NoCall
    /\ ev = [kind |-> "init", loop |-> 0, first |-> FALSE, by |-> "none",
             clears |-> 0, cmd |-> NoCommand]

NewCommand(kind) ==
    [NoCommand EXCEPT !.kind = kind, !.pc = "begin",
                      !.old = all_tasks(loops)]

Issue(r) ==
    /\ Len(cmds) < MaxCommands
    /\ cmds' = Append(cmds, r.c)
    /\ CommitMachine(r.m)
    /\ ev' = [kind |-> "command", loop |-> 0, first |-> FALSE, by |-> "none",
              clears |-> r.m.w.clears, cmd |-> r.c]
    /\ UNCHANGED <<timing, budget>>

\* start_proactive_task is called
CmdStart ==
    \E ivs \in IntervalChoices :
        Issue(force_stop_all_tasks(Machine, NewCommand("start"), ivs))

\* /proactive manage force_stop
CmdForceStop ==
    \E ivs \in IntervalChoices :
        Issue(force_stop_all_tasks(Machine, NewCommand("force_stop"), ivs))

\* /proactive restart
CmdRestart ==
    \E ivs \in IntervalChoices :
        Issue(restart_proactive_task(Machine, NewCommand("restart"), ivs))

\* /proactive manage force_start
CmdForceStart ==
    Issue(manage_force_start(Machine, NewCommand("force_start")))

\* a suspended command goes on: the task it awaits is done, or its sleep
\* is over
CmdResume ==
    \E k \in 1..Len(cmds), ivs \in IntervalChoices :
        /\ cmds[k].pc # "done"
        /\ cmds[k].pc # "start_sleep" => ~Alive(loops[cmds[k].target])
        /\ LET r == resume(Machine, cmds[k], ivs)
           IN /\ cmds' = [cmds EXCEPT ![k] = r.c]
              /\ CommitMachine(r.m)
              /\ ev' = [kind |-> "command", loop |-> 0, first |-> FALSE,
                        by |-> "none", clears |-> r.m.w.clears, cmd |-> r.c]
        /\ UNCHANGED <<timing, budget>>

\* a loop task runs one iteration of its while loop
LoopRun ==
    \E i \in 1..Len(loops), ivs \in IntervalChoices :
        /\ Alive(loops[i]) /\ ~loops[i].cancel /\ loops[i].at = "none"
        /\ LET awake == enabled /\ ~is_sleep_time
               w1 == IF awake
                     THEN ensure_all_sessions_scheduled(
                              check_and_handle_config_change(World, timing),
                              get_target_sessions, 1, now, ivs)
                     ELSE World
               m == [Machine EXCEPT !.w = w1,
                                    !.loops[i].state = "running",
                                    !.loops[i].first = @ /\ ~awake]
           IN /\ CommitMachine(m)
              /\ ev' = [kind |-> IF awake THEN "iteration" ELSE "waiting",
                        loop |-> i, first |-> loops[i].first,
                        by |-> loops[i].by, clears |-> w1.clears,
                        cmd |-> NoCommand]
        /\ UNCHANGED <<cmds, timing, budget>>

\* a loop task that has run begins the send for a due session
LoopBeginSend ==
    \E i \in 1..Len(loops), s \in SeqSet(get_target_sessions) :
        /\ loops[i].state = "running" /\ ~loops[i].cancel
        /\ loops[i].at = "none" /\ ~loops[i].first
        /\ CommitMachine([Machine EXCEPT !.loops[i].at = "send",
                                         !.loops[i].s = s])
        /\ ev' = [kind |-> "send", loop |-> i, first |-> FALSE,
                  by |-> loops[i].by, clears |-> 0, cmd |-> NoCommand]
        /\ UNCHANGED <<cmds, timing, budget>>

\* the send is over: the timer of the session is refreshed
LoopEndSend ==
    \E i \in 1..Len(loops), iv \in get_session_target_interval(timing) :
        /\ loops[i].at = "send" /\ ~loops[i].cancel
        /\ CommitMachine(
             [Machine EXCEPT
                !.w = refresh_session_timer(World, loops[i].s, now, iv),
                !.loops[i].at = "none", !.loops[i].s = "-"])
        /\ ev' = [kind |-> "sent", loop |-> i, first |-> FALSE,
                  by |-> loops[i].by, clears |-> 0, cmd |-> NoCommand]
        /\ UNCHANGED <<cmds, timing, budget>>

\* CancelledError reaches a loop task: one that never ran ends cancelled,
\* one that ran catches it and returns
LoopCancelled ==
    \E i \in 1..Len(loops) :
        /\ Alive(loops[i]) /\ loops[i].cancel
        /\ CommitMachine(
             [Machine EXCEPT
                !.loops[i] = [@ EXCEPT
                    !.state = IF @ = "new" THEN "cancelled" ELSE "finished",
                    !.cancel = FALSE, !.at = "none", !.s = "-"]])
        /\ ev' = [kind |-> "cancelled", loop |-> i, first |-> FALSE,
                  by |-> loops[i].by, clears |-> 0, cmd |-> NoCommand]
        /\ UNCHANGED <<cmds, timing, budget>>

\* a live edit of the cadence-relevant configuration fields
LifeConfigChange ==
    /\ budget < MaxEdits
    /\ \E c \in TimingPresets \ {timing} : timing' = c
    /\ budget' = budget + 1
    /\ CommitMachine(Machine)
    /\ ev' = [kind |-> "config", loop |-> 0, first |-> FALSE, by |-> "none",
              clears |-> 0, cmd |-> NoCommand]
    /\ UNCHANGED cmds

NextLife ==
    \/ CmdStart
    \/ CmdForceStop
    \/ CmdRestart
    \/ CmdForceStart
    \/ CmdResume
    \/ LoopRun
    \/ LoopBeginSend
    \/ LoopEndSend
    \/ LoopCancelled
    \/ LifeConfigChange

SpecLife == InitLife /\ [][NextLife]_vars

\* ================================================================== claims
\* the merge rule: the earliest of the regular time t + interval and the
\* fire times of the pending ad-hoc tasks
MergeRule(t, iv, tasks) ==
    SetMin({t + Sec(iv * SECONDS_PER_MINUTE)}
           \cup {tasks[k].fire_time : k \in 1..Len(tasks)})

\* the sessions whose NextFireTime the last step wrote through `by`
WrittenBy(by) == {s \in Sessions : ev.lw[s].by \in by}

\* C1 as stated: RefreshTimer(s) sets NextFireTime(s) to min(R, A1..An),
\* R = now + regular interval, A1..An the fire times of the pending tasks.
C1_AsStated ==
    \A s \in WrittenBy({"refresh"}) :
        session_next_fire_times[s]
          = MergeRule(ev.lw[s].at, ev.lw[s].iv, ev.lw[s].tasks)

\* C1 amended: RefreshTimer(s) sets NextFireTime(s) to min(R, A1..An) cut
\* down to a whole second (the stored timestamp has no sub-second part).
C1_Refresh ==
    \A s \in WrittenBy({"refresh"}) :
        session_next_fire_times[s]
          = Fmt(MergeRule(ev.lw[s].at, ev.lw[s].iv, ev.lw[s].tasks))

\* a refresh at a time with a sub-second part, of a session with two pending
\* tasks of different fire times, the earlier of which wins over R
C1_Witness ==
    \E s \in WrittenBy({"refresh"}) :
        LET i == ev.lw[s] IN
        /\ i.at % TicksPerSecond # 0
        /\ Len(i.tasks) = 2
        /\ i.tasks[1].fire_time # i.tasks[2].fire_time
        /\ session_next_fire_times[s] < i.at + Sec(i.iv * SECONDS_PER_MINUTE)

\* C2 as stated (whole seconds granted): every write of NextFireTime by
\* lazy creation, after a successful send and after a failed send is the
\* merge rule's output at that moment.
C2_EveryWriteMerges ==
    \A s \in WrittenBy({"ensure", "refresh", "send_failed"}) :
        session_next_fire_times[s]
          = Fmt(MergeRule(ev.lw[s].at, ev.lw[s].iv, ev.lw[s].tasks))

\* C3 as stated: when the awake loop has computed its adaptive sleep, every
\* eligible session with a pending ad-hoc task has NextFireTime no later
\* than that task's fire time.
C3_CadenceNeverDelaysTask ==
    ev.iter = "awake" =>
        \A k \in 1..Len(get_target_sessions) :
            LET s == get_target_sessions[k] IN
            \A j \in 1..Len(session_ai_scheduled[s]) :
                /\ session_next_fire_times[s] # NoTime
                /\ session_next_fire_times[s]
                     <= session_ai_scheduled[s][j].fire_time

C5_AsStated ==
    (ev.send.done /\ ~ev.send.success)
        => /\ ev.send.attempts = 3
           /\ ev.send.notices = 1
           /\ ev.send.delivered = 1
           /\ ev.send.fails_after = ev.send.fails_before + 1
           /\ ev.send.result = NoTask

\* C5 amended: when every attempt fails, exactly 3 attempts are made,
\* exactly one failure notice is issued (its delivery can fail, which is
\* only logged), the failure count grows by exactly 1 and the result is
\* failure with no ad-hoc request.
C5_Exhaustion ==
    (ev.send.done /\ ~ev.send.success)
        => /\ ev.send.attempts = 3
           /\ ev.send.notices = 1
           /\ ev.send.delivered \in {0, 1}
           /\ ev.send.fails_after = ev.send.fails_before + 1
           /\ ev.send.result = NoTask
           /\ session_consecutive_failures[ev.s] = ev.send.fails_after

\* all attempts for a session with an earlier failure failed, and so did
\* the delivery of the notice
C5_Witness ==
    /\ ev.send.done
    /\ ~ev.send.success
    /\ ev.send.delivered = 0
    /\ ev.send.fails_before = 1

\* C6: when the send first succeeds on attempt k (1 <= k <= 3), exactly k
\* attempts are made, no failure notice is sent, the failure count is reset
\* to 0 and the result is success with that attempt's ad-hoc request.
C6_SuccessOnAttemptK ==
    (ev.send.done /\ ev.send.success)
        => /\ ev.send.attempt \in 1..3
           /\ ev.send.attempts = ev.send.attempt
           /\ ev.send.notices = 0
           /\ ev.send.fails_after = 0
           /\ session_consecutive_failures[ev.s] = 0
           /\ ev.send.result = ev.append.task

\* a success on the second attempt, with a request, of a session that had
\* a failure counted
C6_Witness ==
    /\ ev.send.done
    /\ ev.send.success
    /\ ev.send.attempts = 2
    /\ ev.send.fails_before = 1
    /\ ev.send.result # NoTask

\* C7: in a sleep-mode pass a send is attempted for a session only if it
\* has an ad-hoc task whose fire time has elapsed; a session whose
\* NextFireTime has elapsed but which has no due task is skipped, its
\* NextFireTime and ad-hoc list unchanged.
C7_AsleepOnlyDueTasks ==
    /\ (pc \in {"send", "backoff", "notify"} /\ pass.sleep_mode)
          => LET s == pass.sessions[pass.idx] IN
             /\ pass.due_ai_task # NoTask
             /\ pass.due_ai_task.fire_time <= now
             /\ InSeq(pass.due_ai_task, session_ai_scheduled[s])
    /\ \A s \in ev.skipped :
          /\ ev.pre_nf[s] # NoTime
          /\ ev.pre_nf[s] <= ev.at
          /\ session_next_fire_times[s] = ev.pre_nf[s]
          /\ session_ai_scheduled[s] = ev.pre_ai[s]

\* a sleep-mode pass that skipped an elapsed session and sends for another
C7_Witness ==
    /\ pc = "send"
    /\ pass.sleep_mode
    /\ ev.skipped # {}

\* C8 as stated: in a sleep-mode pass every ad-hoc task of an eligible
\* session that is due at the start of the pass is sent in that pass,
\* whatever the session's NextFireTime is.
C8_DueTasksSentInPass ==
    ev.sleep_pass_end => ev.pass_due \subseteq ev.pass_sent

\* C9: when a due task T fires and the send succeeds, T is removed and
\* every other pending task is kept; when the send fails, the list is
\* unchanged and T is still pending.
C9_FiredTaskRemoval ==
    LET before == ev.pre_ai[ev.s]
        after == session_ai_scheduled[ev.s]
        kept == SelectSeq(before, LAMBDA t : t # ev.task)
    IN /\ (ev.kind = "send_ok" /\ ev.task # NoTask)
            => /\ InSeq(ev.task, before)
               /\ ~InSeq(ev.task, after)
               /\ Len(kept) = Len(before) - 1
               /\ after = IF ev.append = NoAppend THEN kept
                          ELSE Append(kept, ev.append.task)
       /\ (ev.kind = "notify" /\ ev.task # NoTask)
            => /\ after = before
               /\ InSeq(ev.task, after)

\* a due task fired successfully while the session had another pending
C9_Witness ==
    /\ ev.kind = "send_ok"
    /\ ev.task # NoTask
    /\ Len(ev.pre_ai[ev.s]) = 2

C11_DurableCopyCurrent ==
    durable = [session_next_fire_times |-> session_next_fire_times,
               session_sleep_remaining |-> session_sleep_remaining,
               timing_config_signature |-> timing_config_signature,
               session_consecutive_failures |-> session_consecutive_failures]

\* C12: saving and then loading in a new process restores all five fields
\* of the persisted state, and every ad-hoc task pending at the save is
\* still pending when the new process has restored its schedules.
C12_SaveLoadRestores ==
    /\ pc = "loaded" => StateBlob = ev.memory
    /\ pc = "restored"
         => session_ai_scheduled = ev.memory.session_ai_scheduled

\* C14: once the termination flag is set, _send_with_retry starts no further
\* send attempt: no retry wait ends in a new attempt while the flag is set.
C14_NoAttemptAfterTermination ==
    ~(ev.kind = "backoff" /\ ev.terminating)

\* C15: once the termination flag is set (it stays set) or the loop task is
\* cancelled, the loop reaches its end, wherever it was suspended, provided
\* every sleep elapses and every send attempt terminates.
C15_EventuallyStopped ==
    (terminating \/ cancel_requested) ~> (pc = "stopped")

\* the loop has ended after the flag was set during a retry wait, with no
\* cancellation
C15_Witness ==
    /\ pc = "stopped"
    /\ terminating /\ ~cancel_requested
    /\ "backoff" \in hist

\* C17: when a due pass ends without a termination request, every session
\* that was due in it has been evaluated, whatever happened while an
\* earlier session was processed.
C17_LaterSessionsEvaluated ==
    (ev.ended.any /\ ~ev.ended.stop)
        => ev.ended.due \subseteq ev.ended.evaluated

\* C13: at most one loop task exists that is not done, and no session is in
\* the send of two passes at once, whatever the interleaving of the start,
\* stop, restart and force-start commands.
C13_SingleLoop ==
    /\ Cardinality(all_tasks(loops)) <= 1
    /\ \A i, j \in 1..Len(loops) :
          (i # j /\ loops[i].at = "send" /\ loops[j].at = "send")
              => loops[i].s # loops[j].s

HandlerCommands ==
    {"add_session", "remove_session", "test_schedule", "manage_clear",
     "status"}
HandlerSessionLists == {<<>>, <<"s1">>, <<"s1", "s2">>}

\* mutation: the timers of every session are cleared
clear_every_timer(w, s) ==
    save_persistent_data(
        [w EXCEPT !.nf = [x \in Sessions |-> NoTime],
                  !.rem = [x \in Sessions |-> NoRemaining]])

clear_session_timer(w, s) ==
    IF w.nf[s] = NoTime /\ w.rem[s] = NoRemaining THEN w
    ELSE save_persistent_data(
             [w EXCEPT !.nf[s] = NoTime, !.rem[s] = NoRemaining])

\* RuntimeDataStore.clear_all: the timer fields it resets
clear_all(w) ==
    [w EXCEPT !.nf = [s \in Sessions |-> NoTime],
              !.rem = [s \in Sessions |-> NoRemaining],
              !.sig = NoSignature,
              !.fails = [s \in Sessions |-> 0]]

\* list.remove(x): the first occurrence goes
RECURSIVE list_remove(_, _)
list_remove(seq, x) ==
    IF seq = <<>> THEN seq
    ELSE IF Head(seq) = x THEN Tail(seq)
    ELSE <<Head(seq)>> \o list_remove(Tail(seq), x)

HandlerEv(kind, s) ==
    [kind |-> kind, s |-> s, before |-> StateBlob, listed |-> InSeq(s, sessions)]

HandlerRest ==
    UNCHANGED <<now, timing, in_sleep_window, pc, was_sleeping,
                slice_remaining, pass, retry, hist, seen_timing, lifevars>>

InitHandlers ==
    /\ now = 0
    /\ timing = InitialTiming
    /\ sessions \in HandlerSessionLists
    /\ in_sleep_window = FALSE
    /\ session_next_fire_times \in [Sessions -> BlobTimes]
    /\ session_sleep_remaining \in [Sessions -> BlobRemaining]
    /\ session_ai_scheduled \in [Sessions -> BlobTaskLists]
    /\ session_consecutive_failures \in [Sessions -> BlobFailures]
    /\ timing_config_signature = get_timing_config_signature(InitialTiming)
    /\ durable = [session_next_fire_times |-> session_next_fire_times,
                  session_sleep_remaining |-> session_sleep_remaining,
                  timing_config_signature |-> timing_config_signature,
                  session_consecutive_failures |->
                      session_consecutive_failures]
    /\ next_task_id = 2
    /\ pc = "slice"
    /\ was_sleeping = FALSE
    /\ slice_remaining = Sec(SLICE_SECONDS)
    /\ pass = NoPass
    /\ retry = NoRetry
    /\ hist = NoHist
    /\ seen_timing = InitialTiming
    /\ budget = 0
    /\ LifeIdle
    /\ ev = [kind |-> "init", s |-> "-", before |-> StateBlob,
             listed |-> FALSE]

\* /proactive add_session issued in session s
CmdAddSession ==
    /\ budget < MaxEnvSteps
    /\ \E s \in Sessions :
         /\ sessions' = IF InSeq(s, sessions) THEN sessions
                        ELSE Append(sessions, s)
         /\ ev' = HandlerEv("add_session", s)
    /\ Commit(World)
    /\ budget' = budget + 1
    /\ HandlerRest

\* /proactive remove_session issued in session s
CmdRemoveSession ==
    /\ budget < MaxEnvSteps
    /\ \E s \in Sessions :
         /\ IF InSeq(s, sessions)
            THEN /\ sessions' = list_remove(sessions, s)
                 /\ Commit(clear_session_timer(World, s))
            ELSE /\ sessions' = sessions
                 /\ Commit(World)
         /\ ev' = HandlerEv("remove_session", s)
    /\ budget' = budget + 1
    /\ HandlerRest

\* /proactive test schedule issued in session s
CmdTestSchedule ==
    /\ budget < MaxEnvSteps
    /\ next_task_id <= MaxTasks
    /\ \E s \in Sessions, iv \in get_session_target_interval(timing) :
         LET task == NewTask(World, now, TEST_DELAY_MINUTES, "test")
             w0 == [World EXCEPT !.next_id = @ + 1]
         IN /\ Commit(apply_ai_schedule(w0, s, task, now, iv))
            /\ ev' = HandlerEv("test_schedule", s)
    /\ budget' = budget + 1
    /\ UNCHANGED sessions
    /\ HandlerRest

\* /proactive manage clear
CmdManageClear ==
    /\ budget < MaxEnvSteps
    /\ Commit(save_persistent_data(clear_all(World)))
    /\ ev' = HandlerEv("manage_clear", "-")
    /\ budget' = budget + 1
    /\ UNCHANGED sessions
    /\ HandlerRest

\* /proactive status: the runtime data is read
CmdStatus ==
    /\ budget < MaxEnvSteps
    /\ Commit(World)
    /\ ev' = HandlerEv("status", "-")
    /\ budget' = budget + 1
    /\ UNCHANGED sessions
    /\ HandlerRest

NextHandlers ==
    \/ CmdAddSession
    \/ CmdRemoveSession
    \/ CmdTestSchedule
    \/ CmdManageClear
    \/ CmdStatus

SpecHandlers == InitHandlers /\ [][NextHandlers]_vars

\* C18 as stated: the scheduler loop is the only writer of the timer state;
\* no command handler changes a next-fire time, a sleep-remaining value, an
\* ad-hoc task list, a failure count or the signature.
C18_LoopOnlyWriter ==
    ev.kind \in HandlerCommands => StateBlob = ev.before

\* C18 amended: command handlers write the timer state too, each only the
\* part its command is about: remove_session clears the next-fire time and
\* the sleep-remaining value of the removed session and nothing else;
\* test schedule appends one task to the list of its session, refreshes the
\* next-fire time of that session only when it is a listed session, and
\* changes nothing else; manage clear empties the next-fire times, the
\* sleep-remaining values, the failure counts and the signature and keeps
\* the ad-hoc task lists; add_session and status write nothing.
C18_HandlerWrites ==
    LET b == ev.before
        nf == session_next_fire_times
        rem == session_sleep_remaining
        ai == session_ai_scheduled
        OthersKept(f, g, s) == \A x \in Sessions \ {s} : f[x] = g[x]
    IN /\ ev.kind \in {"add_session", "status"} => StateBlob = b
       /\ ev.kind = "remove_session" =>
            /\ OthersKept(nf, b.session_next_fire_times, ev.s)
            /\ OthersKept(rem, b.session_sleep_remaining, ev.s)
            /\ ai = b.session_ai_scheduled
            /\ session_consecutive_failures = b.session_consecutive_failures
            /\ timing_config_signature = b.timing_config_signature
            /\ IF ev.listed
               THEN nf[ev.s] = NoTime /\ rem[ev.s] = NoRemaining
               ELSE StateBlob = b
       /\ ev.kind = "test_schedule" =>
            /\ Len(ai[ev.s]) = Len(b.session_ai_scheduled[ev.s]) + 1
            /\ SubSeq(ai[ev.s], 1, Len(ai[ev.s]) - 1) =
                 b.session_ai_scheduled[ev.s]
            /\ OthersKept(ai, b.session_ai_scheduled, ev.s)
            /\ OthersKept(nf, b.session_next_fire_times, ev.s)
            /\ ~ev.listed => nf = b.session_next_fire_times
            /\ rem = b.session_sleep_remaining
            /\ session_consecutive_failures = b.session_consecutive_failures
            /\ timing_config_signature = b.timing_config_signature
       /\ ev.kind = "manage_clear" =>
            /\ \A x \in Sessions :
                 /\ nf[x] = NoTime
                 /\ rem[x] = NoRemaining
                 /\ session_consecutive_failures[x] = 0
            /\ timing_config_signature = NoSignature
            /\ ai = b.session_ai_scheduled

\* remove_session has cleared the timer of a listed session while another
\* session keeps its own
C18_Witness ==
    /\ ev.kind = "remove_session"
    /\ ev.listed
    /\ ev.before.session_next_fire_times[ev.s] # NoTime
    /\ session_next_fire_times[ev.s] = NoTime
    /\ \E x \in Sessions \ {ev.s} : session_next_fire_times[x] # NoTime

\* ================================================ parse_schedule_response
\* The reply of the scheduling model is a sequence of tokens: a brace, a
\* piece of other text, or one "key": value member of a JSON object.  A
\* number is held in halves (1 is 0.5, 2 is 1), a string as its characters.
MaxWrap == 1
MaxMembers == 2

NoValue == [t |-> "missing", num |-> 0, str |-> <<>>]
Num(halves) == [t |-> "num", num |-> halves, str |-> <<>>]
Str(chars) == [t |-> "str", num |-> 0, str |-> chars]
JsonTrue == [t |-> "bool", num |-> 1, str |-> <<>>]
JsonNull == [t |-> "null", num |-> 0, str |-> <<>>]

Tok(kind) == [tok |-> kind, key |-> "-", val |-> NoValue]
Member(key, val) == [tok |-> "member", key |-> key, val |-> val]

DelayValues == {Num(-2), Num(0), Num(1), Num(2), Num(3), JsonTrue,
                Str(<<"5">>)}
PromptValues == {Str(<<>>), Str(<<"x">>), Str(<<" ", "x">>),
                 Str(<<"x", "}">>), JsonNull, Num(2)}
Members ==
    {Member("delay_minutes", v) : v \in DelayValues}
      \cup {Member("follow_up_prompt", v) : v \in PromptValues}
WrapTokens == {Tok("lbrace"), Tok("rbrace"), Tok("text")}

SeqsUpTo(S, n) == UNION {[1..k -> S] : k \in 0..n}
Objects ==
    {<<>>} \cup {<<Tok("lbrace")>> \o ms \o <<Tok("rbrace")>> :
                   ms \in SeqsUpTo(Members, MaxMembers)}
Replies ==
    {pre \o body \o post :
       pre \in SeqsUpTo(WrapTokens, MaxWrap), body \in Objects,
       post \in SeqsUpTo(WrapTokens, MaxWrap)}

NoSchedule == [some |-> FALSE, delay_minutes |-> 0, follow_up_prompt |-> <<>>]
NoMatch == [found |-> FALSE, from |-> 0, to |-> 0, whole |-> FALSE]

\* the token holds a "}" character
has_rbrace(tk) ==
    \/ tk.tok = "rbrace"
    \/ tk.tok = "member" /\ tk.val.t = "str" /\ InSeq("}", tk.val.str)

RECURSIVE first_rbrace(_, _)
first_rbrace(text, j) ==
    IF j > Len(text) THEN 0
    ELSE IF has_rbrace(text[j]) THEN j
    ELSE first_rbrace(text, j + 1)

\* re.search(r"\{[^}]+\}", text, re.DOTALL): the leftmost "{" that is
\* followed by at least one character other than "}" and then by a "}";
\* the match ends at the first "}" after it, which may lie inside a string.
RECURSIVE re_search(_, _)
re_search(text, i) ==
    IF i > Len(text) THEN NoMatch
    ELSE IF text[i].tok # "lbrace" THEN re_search(text, i + 1)
    ELSE LET j == first_rbrace(text, i + 1)
         IN IF j = 0 THEN re_search(text, i + 1)
            ELSE IF j = i + 1 /\ text[j].tok = "rbrace"
                 THEN re_search(text, i + 1)
            ELSE [found |-> TRUE, from |-> i, to |-> j,
                  whole |-> text[j].tok = "rbrace"]

\* json.loads of the matched text succeeds when the match ends at a closing
\* brace and holds members only
json_loads_ok(text, m) ==
    /\ m.whole
    /\ \A k \in (m.from + 1)..(m.to - 1) : text[k].tok = "member"

\* data.get(key, default) of the decoded object: the last member with the
\* key wins
RECURSIVE data_get(_, _, _, _, _)
data_get(text, k, last, key, default) ==
    IF k < last THEN default
    ELSE IF text[k].key = key THEN text[k].val
    ELSE data_get(text, k - 1, last, key, default)

\* int(x) of a positive number
int(v) == IF v.t = "bool" THEN v.num ELSE v.num \div 2

\* bool(x) is False
falsy(v) ==
    \/ v.t = "null"
    \/ v.t = "str" /\ v.str = <<>>
    \/ v.t \in {"num", "bool"} /\ v.num = 0

RECURSIVE lstrip(_)
lstrip(chars) ==
    IF chars # <<>> /\ Head(chars) = " " THEN lstrip(Tail(chars)) ELSE chars

RECURSIVE rstrip(_)
rstrip(chars) ==
    IF chars # <<>> /\ chars[Len(chars)] = " "
    THEN rstrip(SubSeq(chars, 1, Len(chars) - 1)) ELSE chars

strip(chars) == rstrip(lstrip(chars))

\* not isinstance(delay_minutes, (int, float)) or delay_minutes <= 0
delay_rejected(delay_minutes) ==
    \/ delay_minutes.t \notin {"num", "bool"}
    \/ delay_minutes.num <= 0

parse_schedule_response(response_text) ==
    IF response_text = <<>> THEN NoSchedule
    ELSE LET json_match == re_search(response_text, 1)
         IN IF ~json_match.found THEN NoSchedule
            ELSE IF ~json_loads_ok(response_text, json_match) THEN NoSchedule
            ELSE LET delay_minutes ==
                         data_get(response_text, json_match.to - 1,
                                  json_match.from + 1, "delay_minutes",
                                  Num(0))
                     follow_up_prompt ==
                         data_get(response_text, json_match.to - 1,
                                  json_match.from + 1, "follow_up_prompt",
                                  Str(<<>>))
                 IN IF delay_rejected(delay_minutes) THEN NoSchedule
                    ELSE IF falsy(follow_up_prompt)
                            \/ follow_up_prompt.t # "str"
                    THEN NoSchedule
                    ELSE [some |-> TRUE,
                          delay_minutes |-> int(delay_minutes),
                          follow_up_prompt |-> strip(follow_up_prompt.str)]

CallIdle ==
    /\ now = 0
    /\ timing = InitialTiming
    /\ sessions = InitialSessions
    /\ in_sleep_window = FALSE
    /\ session_next_fire_times = [s \in Sessions |-> NoTime]
    /\ session_sleep_remaining = [s \in Sessions |-> NoRemaining]
    /\ session_ai_scheduled = [s \in Sessions |-> <<>>]
    /\ session_consecutive_failures = [s \in Sessions |-> 0]
    /\ timing_config_signature = NoSignature
    /\ durable = [session_next_fire_times |-> [s \in Sessions |-> NoTime],
                  session_sleep_remaining |-> [s \in Sessions |-> NoRemaining],
                  timing_config_signature |-> NoSignature,
                  session_consecutive_failures |-> [s \in Sessions |-> 0]]
    /\ next_task_id = 1
    /\ was_sleeping = FALSE
    /\ slice_remaining = 0
    /\ pass = NoPass
    /\ retry = NoRetry
    /\ hist = NoHist
    /\ seen_timing = NoTiming
    /\ budget = 0
    /\ enabled = TRUE
    /\ terminating = FALSE
    /\ cancel_requested = FALSE
    /\ proactive_task = 0
    /\ loops = <<>>
    /\ cmds = <<>>
    /\ ev = [kind |-> "init"]

CallRest ==
    UNCHANGED <<now, timing, sessions, in_sleep_window,
                session_next_fire_times, session_sleep_remaining,
                session_ai_scheduled, session_consecutive_failures,
                timing_config_signature, durable, next_task_id, was_sleeping,
                slice_remaining, pass, retry, hist, seen_timing, budget,
                enabled, terminating, cancel_requested, proactive_task,
                loops, cmds, ev>>

InitParse ==
    /\ CallIdle
    /\ pc = "call"
    /\ \E response_text \in Replies :
         call = [fn |-> "none", response_text |-> response_text,
                 result |-> NoSchedule]

Parse ==
    /\ pc = "call"
    /\ pc' = "returned"
    /\ call' = [call EXCEPT
                  !.fn = "parse_schedule_response",
                  !.result = parse_schedule_response(call.response_text)]
    /\ CallRest

NextParse == Parse

SpecParse == InitParse /\ [][NextParse]_vars

\* the first JSON object of the reply, members taken whole: a "{", members
\* only, and a "}"
RECURSIVE object_at(_, _, _)
object_at(text, i, j) ==
    IF j > Len(text) THEN 0
    ELSE IF text[j].tok = "rbrace" THEN j
    ELSE IF text[j].tok = "member" THEN object_at(text, i, j + 1)
    ELSE 0

RECURSIVE first_object(_, _)
first_object(text, i) ==
    IF i > Len(text) THEN NoMatch
    ELSE IF text[i].tok = "lbrace" /\ object_at(text, i, i + 1) # 0
    THEN [found |-> TRUE, from |-> i, to |-> object_at(text, i, i + 1),
          whole |-> TRUE]
    ELSE first_object(text, i + 1)

\* C19: parse_schedule_response returns no schedule when the reply holds no
\* JSON object, when delay_minutes is missing, not a number, zero or
\* negative, or when follow_up_prompt is missing, empty or not a string;
\* otherwise, extra text around the object or not, it returns the delay and
\* the stripped prompt of the object.
C19_ParseContract ==
    call.fn = "parse_schedule_response" =>
      LET text == call.response_text
          o == first_object(text, 1)
          d == data_get(text, o.to - 1, o.from + 1, "delay_minutes", NoValue)
          p == data_get(text, o.to - 1, o.from + 1, "follow_up_prompt",
                        NoValue)
      IN IF \/ ~o.found
            \/ d.t # "num" \/ d.num <= 0
            \/ p.t # "str" \/ p.str = <<>>
         THEN ~call.result.some
         ELSE /\ call.result.some
              /\ 2 * call.result.delay_minutes = d.num
              /\ call.result.follow_up_prompt = strip(p.str)

\* =========================================================== is_sleep_time
\* The sleep range is the configured string, held as its characters; the
\* clock is datetime.now().
MINUTES_PER_HOUR == 60
DECIMAL_BASE == 10
DEFAULT_SLEEP_START_HOUR == 22
DEFAULT_SLEEP_END_HOUR == 8

ClockHours == {0, 6, 8, 12, 22, 23}
ClockMinutes == {0, 30}
ClockSeconds == {0, 59}
Digits == <<"0", "1", "2", "3", "4", "5", "6", "7", "8", "9">>

Digit(d) == Digits[d + 1]
\* the hour as the configuration writes it ("8", "22")
HourText(h) ==
    IF h < DECIMAL_BASE THEN <<Digit(h)>>
    ELSE <<Digit(h \div DECIMAL_BASE), Digit(h % DECIMAL_BASE)>>
\* the minute with two digits
MinuteText(m) == <<Digit(m \div DECIMAL_BASE), Digit(m % DECIMAL_BASE)>>
TimeText(h, m) == HourText(h) \o <<":">> \o MinuteText(m)
RangeText(sh, sm, eh, em) == TimeText(sh, sm) \o <<"-">> \o TimeText(eh, em)

DEFAULT_SLEEP_HOURS ==
    RangeText(DEFAULT_SLEEP_START_HOUR, 0, DEFAULT_SLEEP_END_HOUR, 0)

\* ranges that are not of the form HH:MM-HH:MM
MalformedRanges ==
    {<<>>, TimeText(22, 0), <<"2", "2", "-", "8">>,
     TimeText(22, 0) \o <<"-">> \o <<"x", ":", "0", "0">>}

\* str.split(sep)
RECURSIVE split(_, _, _, _)
split(chars, sep, k, part) ==
    IF k > Len(chars) THEN <<part>>
    ELSE IF chars[k] = sep
    THEN <<part>> \o split(chars, sep, k + 1, <<>>)
    ELSE split(chars, sep, k + 1, Append(part, chars[k]))

digit_value(ch) == CHOOSE d \in 0..9 : Digits[d + 1] = ch

is_int(chars) == chars # <<>> /\ \A k \in 1..Len(chars) : InSeq(chars[k], Digits)

\* int(s) of a string of digits
RECURSIVE to_int(_, _, _)
to_int(chars, k, acc) ==
    IF k > Len(chars) THEN acc
    ELSE to_int(chars, k + 1, acc * DECIMAL_BASE + digit_value(chars[k]))

\* mutation: the range is never taken to cross midnight
is_in_plain_range(time_range, clock) ==
    LET halves == split(time_range, "-", 1, <<>>)
    IN IF Len(halves) # 2 THEN FALSE
       ELSE LET st == split(halves[1], ":", 1, <<>>)
                en == split(halves[2], ":", 1, <<>>)
            IN IF Len(st) # 2 \/ Len(en) # 2 THEN FALSE
               ELSE IF \E x \in {st[1], st[2], en[1], en[2]} : ~is_int(x)
               THEN FALSE
               ELSE LET current_minutes ==
                            clock.hour * MINUTES_PER_HOUR + clock.minute
                        start_minutes ==
                            to_int(st[1], 1, 0) * MINUTES_PER_HOUR
                              + to_int(st[2], 1, 0)
                        end_minutes ==
                            to_int(en[1], 1, 0) * MINUTES_PER_HOUR
                              + to_int(en[2], 1, 0)
                    IN start_minutes <= current_minutes
                         /\ current_minutes <= end_minutes

is_in_time_range(time_range, clock) ==
    LET halves == split(time_range, "-", 1, <<>>)
    IN IF Len(halves) # 2 THEN FALSE
       ELSE LET st == split(halves[1], ":", 1, <<>>)
                en == split(halves[2], ":", 1, <<>>)
            IN IF Len(st) # 2 \/ Len(en) # 2 THEN FALSE
               ELSE IF \E x \in {st[1], st[2], en[1], en[2]} : ~is_int(x)
               THEN FALSE
               ELSE LET current_minutes ==
                            clock.hour * MINUTES_PER_HOUR + clock.minute
                        start_minutes ==
                            to_int(st[1], 1, 0) * MINUTES_PER_HOUR
                              + to_int(st[2], 1, 0)
                        end_minutes ==
                            to_int(en[1], 1, 0) * MINUTES_PER_HOUR
                              + to_int(en[2], 1, 0)
                    IN IF start_minutes > end_minutes
                       THEN current_minutes >= start_minutes
                              \/ current_minutes <= end_minutes
                       ELSE start_minutes <= current_minutes
                              /\ current_minutes <= end_minutes

\* time_awareness_config.get(key, default)
config_get(cfg, key, default) ==
    IF key \in DOMAIN cfg THEN cfg[key] ELSE default

\* is_sleep_time of utils/time_utils.py
time_utils_is_sleep_time(cfg, clock) ==
    IF ~config_get(cfg, "sleep_mode_enabled", FALSE) THEN FALSE
    ELSE is_in_time_range(config_get(cfg, "sleep_hours", DEFAULT_SLEEP_HOURS),
                          clock)

Clocks == [hour : ClockHours, minute : ClockMinutes, second : ClockSeconds]
DayTimes == [hour : ClockHours, minute : ClockMinutes]
NoDayTime == [hour |-> 0, minute |-> 0]

InitSleep ==
    /\ CallIdle
    /\ pc = "call"
    /\ \E clock \in Clocks :
         \/ \E e \in BOOLEAN, st \in DayTimes, en \in DayTimes :
              call = [fn |-> "none", clock |-> clock, ranged |-> TRUE,
                      start |-> st, end |-> en,
                      enabled |-> e, result |-> FALSE]
         \/ \E e \in BOOLEAN, r \in MalformedRanges :
              call = [fn |-> "none", clock |-> clock, ranged |-> FALSE,
                      start |-> NoDayTime, end |-> NoDayTime,
                      enabled |-> e, result |-> FALSE]

\* the configuration the call is made with: the enable flag and the range
\* text, a malformed text, or a section that leaves a key out
SleepConfigs ==
    IF call.ranged
    THEN LET text == RangeText(call.start.hour, call.start.minute,
                               call.end.hour, call.end.minute)
         IN {[sleep_mode_enabled |-> call.enabled, sleep_hours |-> text]}
              \cup (IF ~call.enabled THEN {[sleep_hours |-> text]} ELSE {})
              \cup (IF call.enabled /\ text = DEFAULT_SLEEP_HOURS
                    THEN {[sleep_mode_enabled |-> TRUE]} ELSE {})
    ELSE {[sleep_mode_enabled |-> call.enabled, sleep_hours |-> r] :
            r \in MalformedRanges}

IsSleepTime ==
    /\ pc = "call"
    /\ pc' = "returned"
    /\ \E cfg \in SleepConfigs :
         call' = [call EXCEPT !.fn = "is_sleep_time",
                              !.result =
                                  time_utils_is_sleep_time(cfg, call.clock)]
    /\ CallRest

NextSleep == IsSleepTime

SpecSleep == InitSleep /\ [][NextSleep]_vars

MinuteOfDay(t) == t.hour * MINUTES_PER_HOUR + t.minute

\* C20: with sleep mode enabled and a range start-end, is_sleep_time is true
\* exactly when now >= start or now <= end if start > end, and exactly when
\* start <= now <= end otherwise; for 22:00-8:00 it is true at 23:00 and
\* 06:00 and false at 12:00; with sleep mode disabled it is false at every
\* time.
C20_SleepWindow ==
    (call.fn = "is_sleep_time" /\ call.ranged) =>
      LET start == MinuteOfDay(call.start)
          end == MinuteOfDay(call.end)
          t == MinuteOfDay(call.clock)
      IN /\ ~call.enabled => ~call.result
         /\ call.enabled =>
              (call.result <=>
                 IF start > end THEN t >= start \/ t <= end
                 ELSE start <= t /\ t <= end)
         /\ (call.enabled /\ start = 22 * MINUTES_PER_HOUR
               /\ end = 8 * MINUTES_PER_HOUR) =>
              /\ t \in {23 * MINUTES_PER_HOUR, 6 * MINUTES_PER_HOUR}
                   => call.result
              /\ t = 12 * MINUTES_PER_HOUR => ~call.result

\* sleep mode is on, the range is 22:00-8:00, and 06:00 is found to be in it
C20_Witness ==
    /\ call.fn = "is_sleep_time"
    /\ call.ranged
    /\ call.enabled
    /\ MinuteOfDay(call.start) = 22 * MINUTES_PER_HOUR
    /\ MinuteOfDay(call.end) = 8 * MINUTES_PER_HOUR
    /\ MinuteOfDay(call.clock) = 6 * MINUTES_PER_HOUR
    /\ call.result

\* ==================================================== claims on the wake-up
\* the last step was the awake iteration that follows a sleep window
Woke(mode) ==
    /\ ev.iter = "awake"
    /\ ev.woke
    /\ ev.wake = mode

WakeSkip == [send_on_wake_enabled |-> FALSE, wake_send_mode |-> "immediate"]
WakeDelayed == [send_on_wake_enabled |-> TRUE, wake_send_mode |-> "delayed"]

SleepDrift == {0, 1}
WakeEntryTimes == {NoTime, 0, Sec(120)}
\* remaining times an earlier run left in the persisted data
StaleRemaining == {NoRemaining, Sec(SLICE_SECONDS)}
NoWindow == [entry_at |-> NoTime,
             entry_nf |-> [s \in Sessions |-> NoTime], erased |-> FALSE]

WakeRest ==
    UNCHANGED <<timing, sessions, pass, retry, seen_timing, lifevars>>

InitWake ==
    /\ now \in StartPhases
    /\ timing = InitialTiming
    /\ sessions = InitialSessions
    /\ in_sleep_window = TRUE
    /\ session_next_fire_times \in [Sessions -> WakeEntryTimes]
    /\ session_sleep_remaining \in [Sessions -> StaleRemaining]
    /\ session_ai_scheduled = [s \in Sessions |-> <<>>]
    /\ session_consecutive_failures = [s \in Sessions |-> 0]
    /\ timing_config_signature = get_timing_config_signature(InitialTiming)
    /\ durable = [session_next_fire_times |-> session_next_fire_times,
                  session_sleep_remaining |-> session_sleep_remaining,
                  timing_config_signature |-> timing_config_signature,
                  session_consecutive_failures |->
                      session_consecutive_failures]
    /\ next_task_id = 1
    /\ pc = "start"
    /\ was_sleeping = FALSE
    /\ slice_remaining = 0
    /\ pass = NoPass
    /\ retry = NoRetry
    /\ hist = NoWindow
    /\ seen_timing = InitialTiming
    /\ budget = 0
    /\ LifeIdle
    /\ ev = [kind |-> "init", at |-> NoTime, wake |-> NoWake,
             lw |-> [s \in Sessions |-> NoWrite]]

\* the first iteration, inside the window: handle_enter_sleep, a sleep-mode
\* pass that finds nothing to send, and the 60 s sleep begins
WakeEnter ==
    /\ pc = "start"
    /\ LET w1 == handle_enter_sleep(World, get_target_sessions, 1, now)
       IN /\ Commit(w1)
          /\ hist' = [entry_at |-> now, entry_nf |-> session_next_fire_times,
                      erased |-> FALSE]
          /\ ev' = [kind |-> "enter", at |-> now, wake |-> NoWake,
                    lw |-> w1.lw]
    /\ was_sleeping' = TRUE
    /\ pc' = "tick"
    /\ UNCHANGED <<now, in_sleep_window, slice_remaining, budget>>
    /\ WakeRest

\* the 60 s sleep ends inside the window: a sleep-mode pass with nothing to
\* send
WakeTick ==
    /\ pc = "tick"
    /\ \E d \in SleepDrift :
         LET t == now + Sec(SLEEP_TICK_SECONDS) + d
         IN /\ t <= MaxTime
            /\ now' = t
            /\ ev' = [kind |-> "tick", at |-> t, wake |-> NoWake,
                      lw |-> World.lw]
    /\ Commit(World)
    /\ UNCHANGED <<in_sleep_window, was_sleeping, slice_remaining, pc, hist,
                   budget>>
    /\ WakeRest

\* /proactive manage clear while the loop sleeps in the window
WakeClear ==
    /\ pc = "tick"
    /\ budget < MaxEnvSteps
    /\ budget' = budget + 1
    /\ Commit(save_persistent_data(clear_all(World)))
    /\ hist' = [hist EXCEPT !.erased = TRUE]
    /\ ev' = [kind |-> "clear", at |-> now, wake |-> NoWake, lw |-> World.lw]
    /\ UNCHANGED <<now, in_sleep_window, was_sleeping, slice_remaining, pc>>
    /\ WakeRest

\* the 60 s sleep ends outside the window: handle_exit_sleep, the config
\* check, ensure_all_sessions_scheduled, and the first slice begins
WakeExit ==
    /\ pc = "tick"
    /\ \E d \in SleepDrift, ivs1 \in IntervalChoices, ivs2 \in IntervalChoices,
          time_awareness \in WakeModes :
         LET t == now + Sec(SLEEP_TICK_SECONDS) + d
             w1 == handle_exit_sleep(World, get_target_sessions, t, ivs1,
                                     time_awareness)
             w2 == check_and_handle_config_change(w1, timing)
             w3 == ensure_all_sessions_scheduled(w2, get_target_sessions, 1,
                                                 t, ivs2)
         IN /\ t <= MaxTime
            /\ now' = t
            /\ Commit(w3)
            /\ slice_remaining' =
                 calculate_smart_sleep(w3, get_target_sessions, t)
            /\ ev' = [kind |-> "exit", at |-> t, wake |-> time_awareness,
                      lw |-> w3.lw]
    /\ in_sleep_window' = FALSE
    /\ was_sleeping' = FALSE
    /\ pc' = "slice"
    /\ UNCHANGED <<hist, budget>>
    /\ WakeRest

NextWake ==
    \/ WakeEnter
    \/ WakeTick
    \/ WakeClear
    \/ WakeExit

SpecWake == InitWake /\ [][NextWake]_vars

\* the time s had left to its NextFireTime when the loop entered the window
RemainingAtEntry(s) ==
    IF hist.entry_nf[s] # NoTime /\ hist.entry_nf[s] > hist.entry_at
    THEN hist.entry_nf[s] - hist.entry_at ELSE NoRemaining

\* C22 as stated: waking in delayed mode sets the NextFireTime of a session
\* that was r > 0 away from firing at sleep entry to wake_time + r, and
\* recomputes it for a session with no recorded remaining value.
C22_AsStated ==
    (ev.kind = "exit" /\ ev.wake = WakeDelayed) =>
        \A s \in SeqSet(get_target_sessions) :
            /\ RemainingAtEntry(s) # NoRemaining =>
                  session_next_fire_times[s] = ev.at + RemainingAtEntry(s)
            /\ (RemainingAtEntry(s) = NoRemaining
                  /\ ev.lw[s].remaining = NoRemaining) =>
                  session_next_fire_times[s]
                    = Fmt(ev.at + Sec(ev.lw[s].iv * SECONDS_PER_MINUTE))

\* C22 amended: waking in delayed mode sets the NextFireTime of a session
\* that was r > 0 away from firing at sleep entry to wake_time + r cut down
\* to a whole second, unless a clear command erased the recorded value during
\* the window; a session with no recorded remaining value gets a freshly
\* recomputed NextFireTime.
C22_WakeDelayed ==
    (ev.kind = "exit" /\ ev.wake = WakeDelayed) =>
        \A s \in SeqSet(get_target_sessions) :
            IF RemainingAtEntry(s) # NoRemaining /\ ~hist.erased
            THEN /\ ev.lw[s].by = "wake_restore"
                 /\ session_next_fire_times[s]
                      = Fmt(ev.at + RemainingAtEntry(s))
            ELSE ev.lw[s].remaining = NoRemaining =>
                   /\ ev.lw[s].by = "wake_recompute"
                   /\ ev.lw[s].iv \in get_session_target_interval(timing)
                   /\ session_next_fire_times[s]
                        = Fmt(ev.at + Sec(ev.lw[s].iv * SECONDS_PER_MINUTE))

\* the loop woke in delayed mode at a time with a sub-second part; one
\* session had 120 s left at entry and the other had no time recorded
C22_Witness ==
    /\ ev.kind = "exit"
    /\ ev.wake = WakeDelayed
    /\ ~hist.erased
    /\ (ev.at + Sec(120)) % TicksPerSecond # 0
    /\ \E s \in SeqSet(get_target_sessions) :
          /\ RemainingAtEntry(s) = Sec(120)
          /\ session_next_fire_times[s] = Fmt(ev.at + Sec(120))
    /\ \E s \in SeqSet(get_target_sessions) :
          ev.lw[s].by = "wake_recompute"

\* C32: after handle_exit_sleep, in each of the three wake modes, no session
\* has a SleepRemaining value, in the store and in the saved file; and the
\* value a delayed-mode wake restores a timer from is the one recorded when
\* the loop entered the window that is ending.
C32_RemainingOfThisWindow ==
    ev.kind = "exit" =>
        /\ \A s \in Sessions :
              /\ session_sleep_remaining[s] = NoRemaining
              /\ durable.session_sleep_remaining[s] = NoRemaining
        /\ \A s \in SeqSet(get_target_sessions) :
              ev.lw[s].by = "wake_restore" =>
                  ev.lw[s].remaining = RemainingAtEntry(s)

\* the first part alone: the wake-up leaves no SleepRemaining value behind
C32_ClearedOnWake ==
    ev.kind = "exit" =>
        \A s \in Sessions :
            /\ session_sleep_remaining[s] = NoRemaining
            /\ durable.session_sleep_remaining[s] = NoRemaining

\* ------------------------------------------ ensure_all_sessions_scheduled alone
\* The call of line 369 taken by itself, from every stored timer state: a
\* missing entry, a string that does not parse, an elapsed and a future time.
EnsureTimings ==
    TimingPresets \cup
        { TimingPreset("fixed_interval", 1, TRUE),
          [TimingPreset("random_interval", 1, FALSE)
              EXCEPT !.random_max_minutes = 2] }
EnsureSessionLists == {<<>>, <<"s1">>, <<"s2">>, <<"s1", "s2">>, <<"s1", "s1">>}
EnsureStoredTimes == {NoTime, BadTime, 0, Sec(SECONDS_PER_MINUTE)}

EnsureRest ==
    UNCHANGED <<timing, sessions, in_sleep_window, pc, was_sleeping,
                slice_remaining, pass, retry, hist, seen_timing, lifevars>>

InitEnsure ==
    /\ now \in StartPhases
    /\ timing \in EnsureTimings
    /\ sessions \in EnsureSessionLists
    /\ in_sleep_window = FALSE
    /\ session_next_fire_times \in [Sessions -> EnsureStoredTimes]
    /\ session_sleep_remaining = [s \in Sessions |-> NoRemaining]
    /\ session_ai_scheduled = [s \in Sessions |-> <<>>]
    /\ session_consecutive_failures = [s \in Sessions |-> 0]
    /\ timing_config_signature = get_timing_config_signature(timing)
    /\ durable = [session_next_fire_times |-> session_next_fire_times,
                  session_sleep_remaining |-> session_sleep_remaining,
                  timing_config_signature |-> timing_config_signature,
                  session_consecutive_failures |->
                      session_consecutive_failures]
    /\ next_task_id = 1
    /\ pc = "ensure"
    /\ was_sleeping = FALSE
    /\ slice_remaining = 0
    /\ pass = NoPass
    /\ retry = NoRetry
    /\ hist = NoHist
    /\ seen_timing = timing
    /\ budget = 0
    /\ LifeIdle
    /\ ev = [kind |-> "init", at |-> NoTime, again |-> FALSE,
             pre_nf |-> session_next_fire_times,
             lw |-> [s \in Sessions |-> NoWrite]]

\* one call; `again` tells that the step before was a call at the same time
EnsureCall ==
    /\ \E ivs \in IntervalChoices :
         LET w1 == ensure_all_sessions_scheduled(World, get_target_sessions,
                                                 1, now, ivs)
         IN /\ Commit(w1)
            /\ ev' = [kind |-> "ensure", at |-> now,
                      again |-> (ev.kind = "ensure" /\ ev.at = now),
                      pre_nf |-> session_next_fire_times, lw |-> w1.lw]
    /\ UNCHANGED <<now, budget>>
    /\ EnsureRest

\* the loop sleeps between two iterations
EnsureSleep ==
    /\ budget < MaxEnvSteps
    /\ budget' = budget + 1
    /\ \E d \in SleepDrift :
         LET t == now + Sec(SMART_SLEEP_MIN) + d
         IN /\ t <= MaxTime
            /\ now' = t
            /\ ev' = [kind |-> "sleep", at |-> t, again |-> FALSE,
                      pre_nf |-> session_next_fire_times, lw |-> World.lw]
    /\ Commit(World)
    /\ EnsureRest

NextEnsure == EnsureCall \/ EnsureSleep

SpecEnsure == InitEnsure /\ [][NextEnsure]_vars

\* C23: a call of ensure_all_sessions_scheduled changes the NextFireTime of
\* no session whose stored time parses and of no session outside the target
\* list, and a second call made right after the first, with no time passing,
\* writes nothing at all, whatever interval it would draw.
C23_EnsureIdempotent ==
    ev.kind = "ensure" =>
        /\ \A s \in Sessions :
              (ev.pre_nf[s] \notin {NoTime, BadTime}
                 \/ s \notin SeqSet(get_target_sessions)) =>
                  /\ session_next_fire_times[s] = ev.pre_nf[s]
                  /\ ev.lw[s] = NoWrite
        /\ ev.again =>
              /\ session_next_fire_times = ev.pre_nf
              /\ \A s \in Sessions : ev.lw[s] = NoWrite

\* a second call in random-interval mode with two possible intervals, right
\* after a first call that set one timer and kept another
C23_Witness ==
    /\ ev.kind = "ensure"
    /\ ev.again
    /\ timing.timing_mode = "random_interval"
    /\ Cardinality(get_session_target_interval(timing)) > 1
    /\ sessions = <<"s1", "s2">>
    /\ session_next_fire_times["s1"]
         = Fmt(calculate_next_fire_time(now, 2))
    /\ session_next_fire_times["s2"] = 0

\* ------------------------------------------------------- sends that take time
\* The loop started over persisted timers and tasks, with a fixed interval of
\* ten minutes and no sleep window; a send, a failure notice and a retry wait
\* each take time, so that the start of a pass, the start of an attempt and
\* its completion are different moments.
SendTiming == TimingPreset("fixed_interval", 10, FALSE)
SendDurations == {0, 1, Sec(2)}
SendStoredTimes == {NoTime, 0, Sec(SLICE_SECONDS)}
StoredTask(id, fire_time) ==
    [task_id |-> id, fire_time |-> fire_time, delay_minutes |-> 1,
     follow_up_prompt |-> "ai"]
SendTaskLists ==
    { <<>>,
      <<StoredTask(1, 0)>>,
      <<StoredTask(1, Sec(SLICE_SECONDS)), StoredTask(2, 0)>> }

InitSend ==
    /\ now \in StartPhases
    /\ timing = SendTiming
    /\ sessions \in {<<"s1">>, <<"s1", "s2">>}
    /\ in_sleep_window = FALSE
    /\ \E tasks \in SendTaskLists, stored \in [Sessions -> SendStoredTimes] :
         /\ session_ai_scheduled =
              [s \in Sessions |-> IF s = "s1" THEN tasks ELSE <<>>]
         /\ session_next_fire_times =
              [s \in Sessions |->
                 IF s = "s1" /\ tasks # <<>>
                 THEN min_ai_time(tasks, 1, NoTime) ELSE stored[s]]
         /\ next_task_id = Len(tasks) + 1
    /\ session_sleep_remaining = [s \in Sessions |-> NoRemaining]
    /\ session_consecutive_failures = [s \in Sessions |-> 0]
    /\ timing_config_signature = get_timing_config_signature(SendTiming)
    /\ durable = [session_next_fire_times |-> session_next_fire_times,
                  session_sleep_remaining |-> session_sleep_remaining,
                  timing_config_signature |-> timing_config_signature,
                  session_consecutive_failures |->
                      session_consecutive_failures]
    /\ pc = "start"
    /\ was_sleeping = FALSE
    /\ slice_remaining = 0
    /\ pass = NoPass
    /\ retry = NoRetry
    /\ hist = NoHist
    /\ seen_timing = SendTiming
    /\ budget = 0
    /\ LifeIdle
    /\ ev = [EvBase EXCEPT !.at = NoTime]

\* send_proactive_message returns after some time
SendTakesTime == SendReturned(SendDurations, {0} \cup AiDelays)

\* send_proactive_message raises after some time
SendRaisesLate == SendRaised(SendDurations)

\* the failure notice takes some time
NotifyTakesTime == Notified(SendDurations)

NextSend ==
    \/ LoopStart
    \/ SliceWake
    \/ SendTakesTime
    \/ SendRaisesLate
    \/ BackoffWake
    \/ NotifyTakesTime

SpecSend == InitSend /\ [][NextSend]_vars

\* the last step completed a successful send of the regular cadence: the
\* session had no pending task and the reply asked for none
RegularSendDone ==
    /\ ev.kind = "send_ok"
    /\ ev.pre_ai[ev.s] = <<>>
    /\ ev.append = NoAppend

\* C24 as stated: after a successful send NextFireTime equals the send's
\* completion time plus 10 minutes.
C24_AsStated ==
    RegularSendDone =>
        session_next_fire_times[ev.s]
          = ev.at + Sec(SendTiming.interval_minutes * SECONDS_PER_MINUTE)

\* C24 amended: after a successful send NextFireTime equals the send's
\* completion time plus 10 minutes, cut down to a whole second.
C24_FromCompletion ==
    RegularSendDone =>
        session_next_fire_times[ev.s]
          = Fmt(ev.at + Sec(SendTiming.interval_minutes * SECONDS_PER_MINUTE))

\* a first-attempt send that took two seconds, of a session whose previous
\* NextFireTime had elapsed: the new value is neither ten minutes after the
\* start of the attempt nor ten minutes after the previous value
C24_Witness ==
    /\ RegularSendDone
    /\ ev.s = "s1"
    /\ ev.send.attempt = 1
    /\ ev.at = ev.began + Sec(2)
    /\ ev.at % TicksPerSecond # 0
    /\ ev.pre_nf[ev.s] # NoTime
    /\ session_next_fire_times[ev.s]
         # Fmt(ev.began + Sec(SendTiming.interval_minutes * SECONDS_PER_MINUTE))
    /\ session_next_fire_times[ev.s]
         # ev.pre_nf[ev.s] + Sec(SendTiming.interval_minutes * SECONDS_PER_MINUTE)

\* ------------------------------------------------- calculate_smart_sleep alone
\* The function applied to every combination of a session list, stored
\* timers (missing, unparsable, elapsed, a fraction of a second ahead, half a
\* minute ahead, beyond the upper limit) and a clock with or without a
\* sub-second part.
SmartClocks == {Sec(100), Sec(100) + 1}
SmartStoredTimes ==
    {NoTime, BadTime, 0, Sec(100), Sec(101), Sec(130), Sec(500)}

InitSmart ==
    /\ CallIdle
    /\ pc = "call"
    /\ \E clock \in SmartClocks, targets \in EnsureSessionLists,
          stored \in [Sessions -> SmartStoredTimes] :
         call = [fn |-> "none", clock |-> clock, targets |-> targets,
                 stored |-> stored, result |-> 0]

CalculateSmartSleep ==
    /\ pc = "call"
    /\ pc' = "returned"
    /\ call' = [call EXCEPT
                  !.fn = "calculate_smart_sleep",
                  !.result = calculate_smart_sleep(
                                 [World EXCEPT !.nf = call.stored],
                                 call.targets, call.clock)]
    /\ CallRest

NextSmart == CalculateSmartSleep

SpecSmart == InitSmart /\ [][NextSmart]_vars

\* the time from the clock to the stored timers of the target sessions that
\* parse, in ticks
TimesToFire ==
    {call.stored[s] - call.clock :
       s \in {x \in SeqSet(call.targets) :
                call.stored[x] \notin {NoTime, BadTime}}}

Earliest(S) == CHOOSE d \in S : \A e \in S : d <= e

SmartSleepReturned == call.fn = "calculate_smart_sleep"

\* C25 as stated: the result is an integer in [1, 300]; it is the least
\* time to a timer, clamped to [1 s, 300 s], and 60 when there is no timer.
C25_AsStated ==
    SmartSleepReturned =>
        /\ call.result \in SMART_SLEEP_MIN..SMART_SLEEP_MAX
        /\ IF TimesToFire = {}
           THEN call.result = SMART_SLEEP_DEFAULT
           ELSE LET d == Earliest(TimesToFire)
                IN Sec(call.result)
                     = IF d < Sec(SMART_SLEEP_MIN) THEN Sec(SMART_SLEEP_MIN)
                       ELSE IF d > Sec(SMART_SLEEP_MAX) THEN Sec(SMART_SLEEP_MAX)
                       ELSE d

\* C25 amended: the result is an integer in [1, 300]; it is the least time
\* to a timer, in whole seconds rounded down, clamped to [1, 300], and 60
\* when there is no timer.
C25_SmartSleep ==
    SmartSleepReturned =>
        /\ call.result \in SMART_SLEEP_MIN..SMART_SLEEP_MAX
        /\ IF TimesToFire = {}
           THEN call.result = SMART_SLEEP_DEFAULT
           ELSE LET d == Earliest(TimesToFire)
                    whole == CHOOSE n \in -SMART_SLEEP_MAX..(2 * SMART_SLEEP_MAX) :
                                 Sec(n) <= d /\ d < Sec(n + 1)
                IN call.result
                     = IF whole < SMART_SLEEP_MIN THEN SMART_SLEEP_MIN
                       ELSE IF whole > SMART_SLEEP_MAX THEN SMART_SLEEP_MAX
                       ELSE whole

\* the earliest of two timers is 29.5 s ahead: the result is 29
C25_Witness ==
    /\ SmartSleepReturned
    /\ Cardinality(TimesToFire) = 2
    /\ Earliest(TimesToFire) = Sec(30) - 1
    /\ call.result = 29

\* -------------------------------------------------- sends and the sleep window
\* the step begins a call of send_proactive_message: the first attempt for a
\* session of the pass, or the next attempt after the retry wait
AttemptBegins ==
    /\ pc' = "send"
    /\ pc # "send" \/ pass' # pass

\* C26: no attempt of the regular cadence (first attempt or retry, first or
\* later session of the pass) begins while is_sleep_time() is true.
C26_NoRegularSendInWindow ==
    [][(AttemptBegins /\ pass'.due_ai_task = NoTask) => ~in_sleep_window']_vars

\* the last step ended a send whose attempts all failed
SendGivenUp == ev.kind = "notify" /\ ev.send.done /\ ~ev.send.success

PromiseNow == Sec(2 * SECONDS_PER_MINUTE)
PromiseStoredTimes == {NoTime, 0}
PromiseTaskLists == {<<>>, <<StoredTask(1, 0)>>}
PromiseMalformed == {{}, {"s1"}}

TimeBack(x, d) == IF x \in {NoTime, BadTime} THEN x ELSE Max2(x - d, 0)

RECURSIVE TasksBack(_, _)
TasksBack(tasks, d) ==
    IF tasks = <<>> THEN <<>>
    ELSE <<[Head(tasks) EXCEPT !.fire_time = TimeBack(@, d)]>>
           \o TasksBack(Tail(tasks), d)

\* d ticks pass
Later(w, d) ==
    [w EXCEPT
       !.nf = [s \in Sessions |-> TimeBack(w.nf[s], d)],
       !.ai = [s \in Sessions |-> TasksBack(w.ai[s], d)],
       !.disk = [w.disk EXCEPT
                   !.session_next_fire_times =
                       [s \in Sessions |-> TimeBack(@[s], d)]]]

InitPromise ==
    /\ now = PromiseNow
    /\ timing = InitialTiming
    /\ sessions = InitialSessions
    /\ in_sleep_window = FALSE
    /\ session_next_fire_times \in [Sessions -> PromiseStoredTimes]
    /\ session_sleep_remaining = [s \in Sessions |-> NoRemaining]
    /\ \E tasks \in PromiseTaskLists :
         session_ai_scheduled =
             [s \in Sessions |-> IF s = "s2" THEN tasks ELSE <<>>]
    /\ session_consecutive_failures = [s \in Sessions |-> 0]
    /\ timing_config_signature = get_timing_config_signature(InitialTiming)
    /\ durable = [session_next_fire_times |-> session_next_fire_times,
                  session_sleep_remaining |-> session_sleep_remaining,
                  timing_config_signature |-> timing_config_signature,
                  session_consecutive_failures |->
                      session_consecutive_failures]
    /\ next_task_id = 2
    /\ pc = "start"
    /\ was_sleeping = FALSE
    /\ slice_remaining = 0
    /\ pass = NoPass
    /\ retry = NoRetry
    /\ hist = NoHist
    /\ seen_timing = InitialTiming
    /\ budget = 0
    /\ enabled = TRUE
    /\ terminating = FALSE
    /\ cancel_requested = FALSE
    /\ proactive_task = 0
    /\ loops = <<>>
    /\ cmds = <<>>
    /\ \E m \in PromiseMalformed : call = [fn |-> "none", malformed |-> m]
    /\ ev = [EvBase EXCEPT !.at = NoTime]

\* a slice of interruptible_sleep has elapsed
PromiseSlice ==
    /\ pc = "slice"
    /\ LET chunk == Min2(SLICE_SECONDS, slice_remaining)
           remaining == slice_remaining - chunk
           p == NewPass(now, FALSE)
       IN \E w \in {Later(World, Sec(chunk))} :
          IF remaining > 0
          THEN IF is_sleep_time
               THEN Iterate(w, Locals, now, Ev("slice", "-", now))
               ELSE GoSlice(w, Locals, remaining, Ev("slice", "-", now))
          ELSE ContinuePass(w, Locals, p, 1, NewHist(w, p),
                            Ev("slice", "-", now), now)
    /\ UNCHANGED now
    /\ EnvUnchanged

\* send_proactive_message returned and the timer is refreshed
PromiseSendOk ==
    /\ pc = "send"
    /\ pass.sessions[pass.idx] \notin call.malformed
    /\ SendReturned({0}, {0} \cup AiDelays)

\* send_proactive_message returned for a session with an entry without
\* fire_time: the fired task is removed, a new request is appended and saved,
\* and refresh_session_timer raises KeyError, which ends the pass in the
\* `except Exception` of the loop
PromiseRefreshRaises ==
    /\ pc = "send"
    /\ pass.sessions[pass.idx] \in call.malformed
    /\ \E result \in {0} \cup AiDelays :
         LET s == pass.sessions[pass.idx]
             due == pass.due_ai_task
             w1 == clear_failures(World, s)
             w2 == IF due # NoTask
                   THEN save_persistent_data(
                            [w1 EXCEPT !.ai[s] = remove_task(@, due.task_id)])
                   ELSE w1
             schedule_info == NewTask(w2, now, result, "ai")
             w3 == IF result # 0
                   THEN save_persistent_data(
                            [w2 EXCEPT !.next_id = @ + 1,
                                       !.ai[s] = Append(@, schedule_info)])
                   ELSE w2
         IN /\ result # 0 => next_task_id <= MaxTasks
            /\ Commit(w3)
            /\ ev' = [Ev("send_ok", s, now) EXCEPT !.task = due,
                                                    !.began = now]
    /\ pc' = "error"
    /\ pass' = NoPass
    /\ retry' = NoRetry
    /\ hist' = NoHist
    /\ UNCHANGED <<now, was_sleeping, slice_remaining, seen_timing>>
    /\ EnvUnchanged

\* send_proactive_message raised; a session's sends fail for good at most
\* MaxFailures times in a row
PromiseSendFail ==
    /\ pc = "send"
    /\ session_consecutive_failures[pass.sessions[pass.idx]] < MaxFailures
    /\ SendRaised({0})

\* asyncio.sleep(_RETRY_INTERVAL_SECONDS) has elapsed: next attempt
PromiseBackoff ==
    /\ pc = "backoff"
    /\ Commit(Later(World, Sec(RETRY_INTERVAL_SECONDS)))
    /\ ev' = Ev("backoff", pass.sessions[pass.idx], now)
    /\ pc' = "send"
    /\ retry' = [retry EXCEPT !.attempt = @ + 1]
    /\ hist' = [hist EXCEPT !.calls = @ + 1]
    /\ UNCHANGED <<now, was_sleeping, slice_remaining, pass, seen_timing>>
    /\ EnvUnchanged

\* the failure notice is over
PromiseNotify == Notified({0})

\* asyncio.sleep(60) of `except Exception` has elapsed
PromiseError ==
    /\ pc = "error"
    /\ \E w \in {Later(World, Sec(ERROR_SLEEP_SECONDS))} :
         Iterate(w, Locals, now, Ev("error", "-", now))
    /\ UNCHANGED now
    /\ EnvUnchanged

NextPromise ==
    \/ LoopStart
    \/ PromiseSlice
    \/ PromiseSendOk
    \/ PromiseRefreshRaises
    \/ PromiseSendFail
    \/ PromiseBackoff
    \/ PromiseNotify
    \/ PromiseError

SpecPromise == InitPromise /\ [][NextPromise]_vars

\* the loop keeps running: every sleep elapses and every call returns or
\* raises; that the sends succeed at some time is the bound MaxFailures
SpecPromiseFair == SpecPromise /\ WF_vars(NextPromise)

Pending(id) ==
    \E s \in SeqSet(get_target_sessions) :
        \E k \in 1..Len(session_ai_scheduled[s]) :
            session_ai_scheduled[s][k].task_id = id

SentAndRemoved(id) ==
    /\ ev.kind = "send_ok"
    /\ ev.task.task_id = id
    /\ ~Pending(id)

LoopStepped == ev' # ev

\* the step ran an iteration of the while loop from its top, with the feature
\* enabled and no termination asked for
IterationRan ==
    /\ LoopStepped
    /\ pc \in {"start", "tick", "idle", "error"}
    /\ ~cancel_requested
    /\ ~should_terminate
    /\ is_proactive_enabled

DueAt(tasks, t) == {k \in 1..Len(tasks) : tasks[k].fire_time <= t}

\* a send begun for a due task is for the task with the earliest fire time
\* of the session's list
EarliestSelected ==
    (pc = "send" /\ pass.due_ai_task # NoTask) =>
        LET tasks == session_ai_scheduled[pass.sessions[pass.idx]]
        IN \A k \in 1..Len(tasks) :
              pass.due_ai_task.fire_time <= tasks[k].fire_time

\* a successful send takes the fired task, and nothing else, off the list
OneConsumed ==
    ev.kind = "send_ok" =>
        LET before == ev.pre_ai[ev.s]
            after == session_ai_scheduled[ev.s]
            kept == IF ev.task = NoTask THEN before
                    ELSE SelectSeq(before, LAMBDA x : x # ev.task)
        IN /\ ev.task # NoTask => Len(kept) = Len(before) - 1
           /\ after = IF ev.append = NoAppend THEN kept
                      ELSE Append(kept, ev.append.task)

\* the session of the last successful send still holds a task that was due
\* in the pass of that send
DueTaskRemains ==
    /\ ev.kind = "send_ok"
    /\ ev.task # NoTask
    /\ DueAt(session_ai_scheduled[ev.s], ev.pass_now) # {}

\* C29: when several ad-hoc tasks of a session are due in a pass, the send is
\* for the one with the earliest fire time, a successful send consumes
\* exactly that task, and while a due task remains the session's
\* NextFireTime has elapsed when the loop next waits, so that the next pass
\* fires the next task in fire-time order.
C29_DueTasksOnePerPass ==
    /\ EarliestSelected
    /\ OneConsumed
    /\ DueTaskRemains =>
          /\ session_next_fire_times[ev.s] # NoTime
          /\ session_next_fire_times[ev.s] <= now

\* the same, for the value the refresh after the send wrote
C29_RefreshStaysElapsed ==
    (DueTaskRemains /\ ev.lw[ev.s].by = "refresh") =>
        /\ session_next_fire_times[ev.s] # NoTime
        /\ session_next_fire_times[ev.s] <= now

\* ------------------------------------------ a send that returns a new request
\* the last step completed a successful send whose reply asked for a follow-up
NewRequestApplied == ev.kind = "send_ok" /\ ev.append # NoAppend

\* the positions of a list that hold the task with this id
Holding(tasks, id) == {k \in 1..Len(tasks) : tasks[k].task_id = id}

\* C30: when a successful send returns a new ad-hoc request Q, then at the
\* end of the session's processing step the fired task (if any) is gone from
\* the list, Q is in the list once and no other pending task of any session
\* has its task_id, and NextFireTime is set and no later than Q.fire_time;
\* the fired task was removed before Q was appended and before the timer
\* was refreshed (neither the append nor the last refresh saw it, and the
\* refresh saw Q).
C30_NewRequestAfterSend ==
    NewRequestApplied =>
        LET Q == ev.append.task
            fired == ev.task
        IN /\ fired # NoTask => Holding(ev.end_ai, fired.task_id) = {}
           /\ Cardinality(Holding(ev.end_ai, Q.task_id)) = 1
           /\ \A k \in Holding(ev.end_ai, Q.task_id) : ev.end_ai[k] = Q
           /\ \A x \in Sessions \ {ev.s} :
                 Holding(session_ai_scheduled[x], Q.task_id) = {}
           /\ session_ai_scheduled[ev.s] = ev.end_ai
           /\ ev.end_nf # NoTime
           /\ ev.end_nf <= Q.fire_time
           /\ fired # NoTask =>
                 /\ Holding(ev.append.ai_before, fired.task_id) = {}
                 /\ Holding(ev.end_lw.tasks, fired.task_id) = {}
           /\ ev.end_lw.by = "refresh"
           /\ Holding(ev.end_lw.tasks, Q.task_id) # {}

\* the send of a due task whose reply asks for the next follow-up: the fired
\* task was what made the session due, and the new request now is
C30_Witness ==
    /\ NewRequestApplied
    /\ ev.task # NoTask
    /\ ev.pre_nf[ev.s] = ev.task.fire_time
    /\ Len(ev.pre_ai[ev.s]) = 1
    /\ ev.end_ai = <<ev.append.task>>
    /\ ev.end_nf = ev.append.task.fire_time
    /\ ev.end_nf > now

\* ------------------------------------------------ waking in immediate mode
WakeImmediate == [send_on_wake_enabled |-> TRUE, wake_send_mode |-> "immediate"]

\* the eligible sessions whose NextFireTime had elapsed when the loop woke
StaleAtWake ==
    {s \in SeqSet(get_target_sessions) :
        ev.pre_nf[s] \notin {NoTime, BadTime} /\ ev.pre_nf[s] <= ev.at}

\* the first session of the list for which P holds
FirstOf(P(_)) ==
    LET ks == {k \in 1..Len(get_target_sessions) : P(get_target_sessions[k])}
    IN get_target_sessions[SetMin(ks)]

IsStale(s) == s \in StaleAtWake

\* the loop takes its next step from the state the waking iteration left
AfterWaking(mode) == Woke(mode) /\ pc = "slice" /\ now' # now

PassedOver ==
    IF pc' = "send" /\ pass'.now = pass.now /\ ~pass'.sleep_mode
    THEN {pass.sessions[k] : k \in (pass.idx + 1)..(pass'.idx - 1)}
    ELSE {pass.sessions[k] : k \in (pass.idx + 1)..Len(pass.sessions)}

\* a send of an awake pass is over and the pass goes on
AwakePassGoesOn ==
    /\ pc \in {"send", "notify"}
    /\ ~pass.sleep_mode
    /\ pc' \notin {"backoff", "notify"}
    /\ ~(pc' = "send" /\ pass' = pass)

AsleepStoredTimes == {NoTime, 0, Sec(90)}

InitAsleep ==
    /\ now \in StartPhases
    /\ timing = InitialTiming
    /\ sessions = InitialSessions
    /\ in_sleep_window = TRUE
    /\ session_next_fire_times \in [Sessions -> AsleepStoredTimes]
    /\ session_sleep_remaining = [s \in Sessions |-> NoRemaining]
    /\ session_ai_scheduled = [s \in Sessions |-> <<>>]
    /\ session_consecutive_failures = [s \in Sessions |-> 0]
    /\ timing_config_signature = get_timing_config_signature(InitialTiming)
    /\ durable = [session_next_fire_times |-> session_next_fire_times,
                  session_sleep_remaining |-> session_sleep_remaining,
                  timing_config_signature |-> timing_config_signature,
                  session_consecutive_failures |->
                      session_consecutive_failures]
    /\ next_task_id = 1
    /\ pc = "start"
    /\ was_sleeping = FALSE
    /\ slice_remaining = 0
    /\ pass = NoPass
    /\ retry = NoRetry
    /\ hist = NoHist
    /\ seen_timing = InitialTiming
    /\ budget = 0
    /\ LifeIdle
    /\ ev = [EvBase EXCEPT !.at = NoTime]

\* a send returns with no request for a follow-up
PlainSendOk == SendReturned(SendTicks, {0})

NextAsleep ==
    \/ LoopStart
    \/ SliceWake
    \/ TickWake
    \/ PlainSendOk
    \/ SendFail
    \/ BackoffWake
    \/ NotifyDone
    \/ ConfigChange
    \/ WindowToggle

SpecAsleep == InitAsleep /\ [][NextAsleep]_vars

\* --------------------------------------- _check_and_handle_config_change alone
\* The call of line 366 taken by itself, over every stored signature (none,
\* that of the current configuration, that of another one) and over stored
\* timers, remaining times and tasks; the configuration is edited between
\* calls.
ConfigStoredSignatures ==
    {NoSignature} \cup {get_timing_config_signature(c) : c \in TimingPresets}
ConfigStoredTimes == {NoTime, Sec(SECONDS_PER_MINUTE)}
ConfigStoredRemaining == {NoRemaining, Sec(SLICE_SECONDS)}
ConfigTaskLists == {<<>>, <<StoredTask(1, Sec(SECONDS_PER_MINUTE))>>}

ConfigRest ==
    UNCHANGED <<now, timing, sessions, in_sleep_window, pc, was_sleeping,
                slice_remaining, pass, retry, hist, seen_timing, budget,
                lifevars>>

InitConfig ==
    /\ now \in StartPhases
    /\ timing \in TimingPresets
    /\ sessions = InitialSessions
    /\ in_sleep_window = FALSE
    /\ session_next_fire_times \in [Sessions -> ConfigStoredTimes]
    /\ session_sleep_remaining \in [Sessions -> ConfigStoredRemaining]
    /\ \E tasks \in ConfigTaskLists :
         session_ai_scheduled =
             [s \in Sessions |-> IF s = "s1" THEN tasks ELSE <<>>]
    /\ session_consecutive_failures = InitialFailures
    /\ timing_config_signature \in ConfigStoredSignatures
    /\ durable = [session_next_fire_times |-> session_next_fire_times,
                  session_sleep_remaining |-> session_sleep_remaining,
                  timing_config_signature |-> timing_config_signature,
                  session_consecutive_failures |->
                      session_consecutive_failures]
    /\ next_task_id = 2
    /\ pc = "check"
    /\ was_sleeping = FALSE
    /\ slice_remaining = 0
    /\ pass = NoPass
    /\ retry = NoRetry
    /\ hist = NoHist
    /\ seen_timing = timing
    /\ budget = 0
    /\ LifeIdle
    /\ ev = [kind |-> "init", s |-> "-", cfg |-> timing, pre |-> World,
             clears |-> 0]

\* one call of _check_and_handle_config_change
ConfigCheckCall ==
    /\ LET w1 == check_and_handle_config_change(World, timing)
       IN /\ Commit(w1)
          /\ ev' = [kind |-> "check", s |-> "-", cfg |-> timing,
                    pre |-> World, clears |-> w1.clears]
    /\ ConfigRest

\* one call of clear_session_timer
ClearTimerCall ==
    /\ \E s \in Sessions :
         /\ Commit(clear_session_timer(World, s))
         /\ ev' = [kind |-> "clear_one", s |-> s, cfg |-> timing,
                   pre |-> World, clears |-> 0]
    /\ ConfigRest

\* one call of clear_all_session_timers
ClearAllCall ==
    /\ LET w1 == clear_all_session_timers(World)
       IN /\ Commit(w1)
          /\ ev' = [kind |-> "clear_all", s |-> "-", cfg |-> timing,
                    pre |-> World, clears |-> w1.clears]
    /\ ConfigRest

NextConfig ==
    \/ ConfigCheckCall
    \/ ClearTimerCall
    \/ ClearAllCall
    \/ ConfigChange

SpecConfig == InitConfig /\ [][NextConfig]_vars

\* C34: when the stored signature is empty, the config check stores the
\* signature of the current configuration, in memory and in the file, and
\* changes no NextFireTime, no remaining time and no task list; it clears the
\* timers exactly when a stored signature that is not empty differs from the
\* current one.
C34_FirstCheckRecords ==
    ev.kind = "check" =>
        LET current == get_timing_config_signature(ev.cfg)
        IN /\ ev.pre.sig = NoSignature =>
                 /\ timing_config_signature = current
                 /\ durable.timing_config_signature = current
                 /\ session_next_fire_times = ev.pre.nf
                 /\ session_sleep_remaining = ev.pre.rem
                 /\ session_ai_scheduled = ev.pre.ai
           /\ ev.clears > 0 <=>
                 (ev.pre.sig # NoSignature /\ ev.pre.sig # current)
           /\ ev.clears = 0 =>
                 /\ session_next_fire_times = ev.pre.nf
                 /\ session_sleep_remaining = ev.pre.rem

\* a first check over stored timers, remaining times and a task
C34_Witness ==
    /\ ev.kind = "check"
    /\ ev.pre.sig = NoSignature
    /\ timing_config_signature # NoSignature
    /\ \A s \in Sessions :
          /\ session_next_fire_times[s] # NoTime
          /\ session_sleep_remaining[s] # NoRemaining
    /\ session_ai_scheduled["s1"] # <<>>

\* C35: clear_all_session_timers and clear_session_timer(s) remove next-fire
\* times and remaining times only: the task lists, the failure counts and
\* the stored signature are as before; clear_all_session_timers leaves no
\* next-fire time and no remaining time, and clear_session_timer(s) removes
\* those of s and leaves those of every other session as they were.
C35_ClearsOnlyTimers ==
    ev.kind \in {"clear_one", "clear_all"} =>
        /\ session_ai_scheduled = ev.pre.ai
        /\ session_consecutive_failures = ev.pre.fails
        /\ timing_config_signature = ev.pre.sig
        /\ ev.kind = "clear_all" =>
              \A x \in Sessions :
                  /\ session_next_fire_times[x] = NoTime
                  /\ session_sleep_remaining[x] = NoRemaining
        /\ ev.kind = "clear_one" =>
              /\ session_next_fire_times[ev.s] = NoTime
              /\ session_sleep_remaining[ev.s] = NoRemaining
              /\ \A x \in Sessions \ {ev.s} :
                    /\ session_next_fire_times[x] = ev.pre.nf[x]
                    /\ session_sleep_remaining[x] = ev.pre.rem[x]

\* clear_session_timer for s1, which has a timer, a remaining time, a task
\* and a failure count, while s2 has a timer and a remaining time too
C35_Witness ==
    /\ ev.kind = "clear_one"
    /\ ev.s = "s1"
    /\ ev.pre.nf["s1"] # NoTime
    /\ ev.pre.rem["s1"] # NoRemaining
    /\ session_next_fire_times["s2"] # NoTime
    /\ session_sleep_remaining["s2"] # NoRemaining
    /\ session_ai_scheduled["s1"] # <<>>
    /\ session_consecutive_failures["s1"] > 0
    /\ timing_config_signature # NoSignature

\* ============================================ malformed persisted entries
\* C36: a malformed persisted entry never aborts a loop iteration: no
\* iteration ends in the loop's `except Exception` and no due pass is left
\* by an exception, whatever the ad-hoc lists of the sessions hold.
C36_MalformedNeverAborts ==
    /\ pc # "error"
    /\ ev.sleep_call # "exit_raised"
    /\ ev.ended.any => ~ev.ended.raised

\* ===================================================== the failure counts
\* the send cycle of s ends with a send that returned
CycleSucceeded(s) ==
    /\ pc = "send"
    /\ pass.sessions[pass.idx] = s
    /\ ev'.kind = "send_ok"
    /\ ~(pc' = "send" /\ pass' = pass)

\* the last attempt of the send cycle of s raised
CycleExhausted(s) ==
    /\ pc = "send"
    /\ pass.sessions[pass.idx] = s
    /\ pc' = "notify"

\* a due pass begins after the last slice of the adaptive sleep
AwakePassBegins ==
    /\ pc = "slice"
    /\ now' # now
    /\ slice_remaining <= SLICE_SECONDS

\* the eligible sessions the pass of this step went by without a send
NotAttempted ==
    IF AwakePassBegins
    THEN {sessions[k] :
            k \in 1..(IF pc' = "send" THEN pass'.idx - 1 ELSE Len(sessions))}
    ELSE PassedOver

\* `now` of the pass of this step
PassTime == IF AwakePassBegins THEN now' ELSE pass.now

MaxMessage == 4
MessageChars == {"you", "yi", "dian", "zhong", "ming", "tian", "x"}
Messages == SeqsUpTo(MessageChars, MaxMessage)
AnalysisPrompts == {<<>>, <<"p">>}

\* [\d...]+ : the position after the numerals that begin at i, 0 if none
RECURSIVE numerals_end(_, _)
numerals_end(text, i) ==
    IF i <= Len(text) /\ text[i] = "yi"
    THEN LET j == numerals_end(text, i + 1) IN IF j = 0 THEN i + 1 ELSE j
    ELSE 0

\* pattern 1: numerals and a unit (a day, an hour of the clock)
relative_time_at(text, i) ==
    LET j == numerals_end(text, i)
    IN j # 0 /\ j <= Len(text) /\ text[j] \in {"tian", "zhong"}

\* pattern 3: numerals and "dian"; what may follow it is optional
clock_time_at(text, i) ==
    LET j == numerals_end(text, i)
    IN j # 0 /\ j <= Len(text) /\ text[j] = "dian"

\* pattern 4: the word for tomorrow
fuzzy_time_at(text, i) ==
    /\ i + 1 <= Len(text)
    /\ text[i] = "ming"
    /\ text[i + 1] = "tian"

\* _TIME_KEYWORDS_RE.search(text)
time_keywords_search(text) ==
    \E i \in 1..Len(text) :
        \/ relative_time_at(text, i)
        \/ clock_time_at(text, i)
        \/ fuzzy_time_at(text, i)

\* re.search of the exclusion rule: a verb, "yi dian", and no "zhong" behind
exclusion_search(text) ==
    \E i \in 1..Len(text) :
        /\ i + 2 <= Len(text)
        /\ text[i] = "you"
        /\ text[i + 1] = "yi"
        /\ text[i + 2] = "dian"
        /\ ~(i + 3 <= Len(text) /\ text[i + 3] = "zhong")

\* mutation: the exclusion rule is missing
contains_time_pattern(text) ==
    IF text = <<>> THEN FALSE
    ELSE time_keywords_search(text)

contains_time_keywords(text) ==
    IF text = <<>> THEN FALSE
    ELSE IF ~time_keywords_search(text) THEN FALSE
    ELSE IF exclusion_search(text) THEN FALSE
    ELSE TRUE

\* what context.llm_generate does: it raises, returns nothing, returns a
\* message of another role or an empty text, or returns a reply
ReplyObject(d) ==
    <<Tok("lbrace"), Member("delay_minutes", d),
      Member("follow_up_prompt", Str(<<"x">>)), Tok("rbrace")>>
AnalyzeReplies == {<<Tok("text")>>} \cup {ReplyObject(d) : d \in DelayValues}
LlmFailures == {"raised", "none", "role", "empty"}
LlmOutcomes ==
    {[kind |-> k, text |-> <<>>] : k \in LlmFailures}
      \cup {[kind |-> "reply", text |-> r] : r \in AnalyzeReplies}

NoAnalysis == [some |-> FALSE, delay_minutes |-> 0, follow_up_prompt |-> <<>>,
               fire_time |-> NoTime, created_at |-> NoTime, task_id |-> 0]

\* the lines after the await: the reply is parsed; t1 and t2 are the two
\* readings of datetime.now()
schedule_of(response_text, t1, t2, id) ==
    LET result == parse_schedule_response(response_text)
    IN IF ~result.some THEN NoAnalysis
       ELSE [some |-> TRUE,
             delay_minutes |-> result.delay_minutes,
             follow_up_prompt |-> result.follow_up_prompt,
             fire_time |-> Fmt(t1 + Sec(SECONDS_PER_MINUTE
                                            * result.delay_minutes)),
             created_at |-> Fmt(t2),
             task_id |-> id]

AnalyzeRest ==
    UNCHANGED <<timing, sessions, in_sleep_window, session_next_fire_times,
                session_sleep_remaining, session_ai_scheduled,
                session_consecutive_failures, timing_config_signature,
                durable, was_sleeping, slice_remaining, pass, retry, hist,
                seen_timing, budget, enabled, terminating, cancel_requested,
                proactive_task, loops, cmds, ev>>

InitAnalyze ==
    /\ CallIdle
    /\ pc = "call"
    /\ \E ai_message \in Messages, analysis_prompt \in AnalysisPrompts :
         call = [fn |-> "none", ai_message |-> ai_message,
                 analysis_prompt |-> analysis_prompt, keywords |-> FALSE,
                 llm_calls |-> 0, response_text |-> <<>>,
                 result |-> NoAnalysis]

\* analyze_for_schedule up to `await context.llm_generate`, or to its
\* return when the message or the prompt rules the analysis out
AnalyzeCall ==
    /\ pc = "call"
    /\ LET keywords == contains_time_keywords(call.ai_message)
           go == keywords /\ call.analysis_prompt # <<>>
       IN /\ pc' = IF go THEN "llm" ELSE "returned"
          /\ call' = [call EXCEPT
                        !.fn = "analyze_for_schedule",
                        !.keywords = keywords,
                        !.llm_calls = IF go THEN 1 ELSE 0]
    /\ UNCHANGED <<now, next_task_id>>
    /\ AnalyzeRest

\* llm_generate is over after j ticks
LlmDone ==
    /\ pc = "llm"
    /\ pc' = "returned"
    /\ \E j \in 0..1, gap \in 0..1,
          outcome \in LlmOutcomes :
         LET t1 == now + j
             t2 == t1 + gap
             result == IF outcome.kind \in LlmFailures THEN NoAnalysis
                       ELSE schedule_of(outcome.text, t1, t2, next_task_id)
         IN /\ now' = t2
            /\ next_task_id' = IF result.some THEN next_task_id + 1
                               ELSE next_task_id
            /\ call' = [call EXCEPT
                          !.response_text = outcome.text,
                          !.result = result]
    /\ AnalyzeRest

NextAnalyze ==
    \/ AnalyzeCall
    \/ LlmDone

SpecAnalyze == InitAnalyze /\ [][NextAnalyze]_vars

\* the delay_minutes of the reply's object
ReplyDelay ==
    IF Len(call.response_text) < 2 THEN NoValue
    ELSE call.response_text[2].val

\* C38: every task analyze_for_schedule returns has a whole delay_minutes of
\* at least 1 and a fire_time later than its created_at, and a reply whose
\* delay is zero or negative gives no task.
C38_TaskDelayPositive ==
    call.fn = "analyze_for_schedule" =>
        /\ call.result.some =>
              /\ call.result.delay_minutes \in Nat
              /\ call.result.delay_minutes >= 1
              /\ call.result.fire_time > call.result.created_at
        /\ (ReplyDelay.t = "num" /\ ReplyDelay.num <= 0) => ~call.result.some

\* the text holds the phrase
Holds(text, phrase) ==
    \E i \in 1..Len(text) :
        /\ i + Len(phrase) - 1 <= Len(text)
        /\ SubSeq(text, i, i + Len(phrase) - 1) = phrase

\* the phrases of the alphabet that are expressions of time
TimePhrases ==
    {<<"yi", "tian">>, <<"yi", "zhong">>, <<"yi", "dian">>,
     <<"ming", "tian">>}
TimePatternMatches(text) == \E ph \in TimePhrases : Holds(text, ph)

\* "you yi dian" as a quantity: not the hour "you yi dian zhong"
ExclusionMatches(text) ==
    \E i \in 1..Len(text) :
        /\ i + 2 <= Len(text)
        /\ SubSeq(text, i, i + 2) = <<"you", "yi", "dian">>
        /\ (i + 3 <= Len(text) => text[i + 3] # "zhong")

\* C39: the pre-filter is false for an empty message, for a message no time
\* pattern matches, and for a message the exclusion matches whether or not
\* a time pattern matches, and true otherwise; analyze_for_schedule calls
\* the model at most once, only when the pre-filter is true, and returns
\* no schedule when it is false.
C39_PrefilterGates ==
    call.fn = "analyze_for_schedule" =>
        /\ call.ai_message = <<>> => ~call.keywords
        /\ ~TimePatternMatches(call.ai_message) => ~call.keywords
        /\ ExclusionMatches(call.ai_message) => ~call.keywords
        /\ (TimePatternMatches(call.ai_message)
              /\ ~ExclusionMatches(call.ai_message)) => call.keywords
        /\ call.llm_calls \in {0, 1}
        /\ call.llm_calls = 1 => call.keywords
        /\ ~call.keywords =>
              /\ call.llm_calls = 0
              /\ pc = "returned"
              /\ ~call.result.some

\* a message a time pattern matches and the exclusion matches too has been
\* turned down without a call of the model, although a prompt is set
C39_Witness ==
    /\ call.fn = "analyze_for_schedule"
    /\ TimePatternMatches(call.ai_message)
    /\ ExclusionMatches(call.ai_message)
    /\ call.analysis_prompt # <<>>
    /\ ~call.keywords
    /\ call.llm_calls = 0
    /\ pc = "returned"

\* ================================================ a session is removed
\* The loop of the main specification with the remove_session command
\* issued while the loop is suspended: in a sleep slice, in a send, in a
\* retry wait or in the failure notice.
RemoveSession ==
    /\ budget < MaxEnvSteps
    /\ \E s \in Sessions :
         IF InSeq(s, sessions)
         THEN /\ sessions' = list_remove(sessions, s)
              /\ Commit(clear_session_timer(World, s))
         ELSE /\ sessions' = sessions
              /\ Commit(World)
    /\ budget' = budget + 1
    /\ UNCHANGED <<timing, in_sleep_window, ev>>
    /\ LoopLocalsUnchanged

NextRemoval ==
    \/ LoopStart
    \/ SliceWake
    \/ TickWake
    \/ PlainSendOk
    \/ SendFail
    \/ BackoffWake
    \/ NotifyDone
    \/ WindowToggle
    \/ RemoveSession

SpecRemoval == Init /\ [][NextRemoval]_vars

\* the loop starts an attempt to send to s in this step
AttemptStarts(s) ==
    /\ pc' = "send"
    /\ pass'.sessions[pass'.idx] = s
    /\ <<pc, pass, retry>>' # <<pc, pass, retry>>

\* C40: for a session that is no longer in the list of eligible sessions,
\* whose timer the removal cleared, no step starts a send attempt and no
\* step writes a NextFireTime, a pass that was suspended in a send or a
\* retry wait when the session was removed included.
C40_RemovedStaysSilent ==
    [][\A s \in Sessions :
          ~InSeq(s, sessions) =>
              /\ ~AttemptStarts(s)
              /\ session_next_fire_times'[s] = session_next_fire_times[s]]_vars

====
